---- MODULE Spec2Model ----
(***************************************************************************)
(* Model of the dev-cli core: Context (lazy Executor / Provider memo),     *)
(* ProviderRegistry, the three Executor variants, the PluginManager, the  *)
(* command loader and its action wrapper, the hosts provider's addEntries, *)
(* the database provider's rollback and the docker reload command.         *)
(*                                                                         *)
(* Object identity is modelled by a heap: every `new X(...)` appends one   *)
(* record to `heap`, and the object's identity is its index (0 is null).   *)
(***************************************************************************)
EXTENDS Integers, Sequences, FiniteSets, TLC

VARIABLES
    ctxConfig,             \* Context._config (the id of a configuration record)
    ctxExecutor,           \* Context._executor: 0 (null) or a heap id
    ctxProviders,          \* Context._providers: type -> Undefined | 0 (null) | heap id
    providersInitialized,  \* Context._providersInitialized
    heap,                  \* every object constructed so far, in construction order
    regProviders,          \* ProviderRegistry.providers (Map, insertion order)
    regInstances,          \* ProviderRegistry.instances (Map key -> heap id)
    ret,                   \* the outcome of the last Context / registry call
    cmdOut,                \* what the last database command printed and spawned
    execRet,               \* the outcome of the last Executor capability call
    pmPlugins,             \* PluginManager.plugins (Map, insertion order of names)
    pmCall,                \* the PluginManager call in flight
    pmRet,                 \* the outcome of the last completed PluginManager call
    pmStats,               \* per plugin: imports, validations, provider calls, ...
    pmCalls,               \* number of PluginManager API calls started so far
    cmd,                   \* the running command invocation (action wrapper)
    dirRet,                \* the outcome of the last loadCommandsFromDirectory call
    ld,                    \* the command loader: loadCommands / registerCommands
    hostsFile,             \* the lines of the hosts file
    hostsRet,              \* the outcome of the last addEntries call
    snapRet,               \* the outcome of the last MySQLProvider.rollback call
    rl,                    \* the running `reload` command
    rb,                    \* the running `rebuild` command
    help,                  \* the outcome of the last buildCategorizedHelp call
    s3,                    \* the outcome of the last S3Provider.detectCLITool call
    io                     \* the I/O the provider operations called so far have done

vars == <<ctxConfig, ctxExecutor, ctxProviders, providersInitialized, heap,
          regProviders, regInstances, ret, cmdOut, execRet,
          pmPlugins, pmCall, pmRet, pmStats, pmCalls, cmd,
          dirRet, ld, hostsFile, hostsRet, snapRet, rl, rb, help, s3,
          io>>

ctxVars  == <<ctxConfig, ctxExecutor, ctxProviders, providersInitialized, heap,
              regProviders, regInstances, ret, cmdOut>>
pmVars   == <<pmPlugins, pmCall, pmRet, pmStats, pmCalls, cmd>>
lateVars == <<rb, help, s3, io>>
baseVars == <<ctxVars, pmVars, execRet, dirRet, ld, hostsFile, hostsRet, snapRet, rl>>
moreVars == <<dirRet, ld, hostsFile, hostsRet, snapRet, rl, lateVars>>

(***************************************************************************)
(* Bounds of the model.                                                    *)
(***************************************************************************)
MaxObjects == 4        \* objects constructed in one process
MaxInstances == 2      \* provider instances the registry constructs
MaxPmCalls == 2        \* PluginManager API calls before the command runs
MaxNames   == 2        \* length of a loadPlugins(names) list
MaxFiles   == 2        \* entries of a directory of command files
MaxHostsCalls == 2     \* addEntries calls on one hosts file
MaxSnaps   == 2        \* entries of the snapshot directory
MaxReloadable == 2     \* length of execution.docker.reloadable
MaxCommands == 3       \* commands handed to buildCategorizedHelp
MaxIoCalls == 2        \* provider operations called in one process

(***************************************************************************)
(* Configuration records.  "unset" stands for a missing key / undefined.   *)
(* A, B, D and E pass the configuration schema; C does not (it names        *)
(* drivers the schema rejects) and is only handed to the registry directly.*)
(***************************************************************************)
Undefined == -1

ProviderTypes == {"database", "storage", "hosts"}

ConfigIds == {"A", "B", "C", "D", "E"}

Config(id) ==
    CASE id = "A" -> [mode |-> "docker", database |-> "mysql", storage |-> "s3",
                      hosts |-> "etc-hosts"]
      [] id = "B" -> [mode |-> "ssh", database |-> "mysql", storage |-> "filesystem",
                      hosts |-> "none"]
      [] id = "C" -> [mode |-> "docker", database |-> "mongo", storage |-> "gcs",
                      hosts |-> "hostsfile"]
      [] id = "D" -> [mode |-> "native", database |-> "none", storage |-> "none",
                      hosts |-> "none"]
      [] id = "E" -> [mode |-> "unset", database |-> "none", storage |-> "minio",
                      hosts |-> "unset"]

ValidatedConfigIds == {"A", "B", "D", "E"}

\* config[type] followed by .driver; a type the configuration has no key for
\* yields "unset"
DriverOf(id, type) ==
    CASE type = "database" -> Config(id).database
      [] type = "storage"  -> Config(id).storage
      [] type = "hosts"    -> Config(id).hosts
      [] OTHER             -> "unset"

(***************************************************************************)
(* Heap.                                                                   *)
(***************************************************************************)
ExecutorClasses == {"DockerExecutor", "NativeExecutor", "SSHExecutor"}

\* an object: its class, who constructed it, and (for a Provider) the executor
\* and configuration it was constructed with
Obj(class, by, type, executor, cfg) ==
    [class |-> class, by |-> by, type |-> type, executor |-> executor, cfg |-> cfg]

Ids == 1..Len(heap)

NoRet == [op |-> "none", arg |-> "", cfg |-> "", exe |-> 0,
          outcome |-> "none", value |-> 0, err |-> "", list |-> <<>>]

Ret(op, arg, cfg, exe, outcome, value, err, list) ==
    [op |-> op, arg |-> arg, cfg |-> cfg, exe |-> exe,
     outcome |-> outcome, value |-> value, err |-> err, list |-> list]

(***************************************************************************)
(* execution/index.js                                                      *)
(***************************************************************************)
\* the class createExecutor constructs, "" when it throws
createExecutor(id) ==
    LET mode == IF Config(id).mode = "unset" THEN "docker" ELSE Config(id).mode
    IN  CASE mode = "docker" -> "DockerExecutor"
          [] mode = "native" -> "NativeExecutor"
          [] mode = "ssh"    -> "SSHExecutor"
          [] OTHER           -> ""

(***************************************************************************)
(* providers/<type>/index.js: the create<Type>Provider factories.          *)
(* Result: "null", a class name, or "throw".                               *)
(***************************************************************************)
\* createDatabaseProvider without the DATABASE_DRIVERS.NONE test
createDatabaseProviderNoNone(driver) ==
    CASE driver = "unset"                      -> "null"
      [] driver = "mysql"                      -> "MySQLProvider"
      [] driver \in {"postgres", "postgresql"} -> "PostgresProvider"
      [] driver = "sqlite"                     -> "SQLiteProvider"
      [] OTHER                                 -> "throw"

\* createDatabaseProvider(dbConfig, config, executor)
createDatabaseProvider(driver) ==
    CASE driver \in {"unset", "none"}          -> "null"
      [] driver = "mysql"                      -> "MySQLProvider"
      [] driver \in {"postgres", "postgresql"} -> "PostgresProvider"
      [] driver = "sqlite"                     -> "SQLiteProvider"
      [] OTHER                                 -> "throw"

createStorageProvider(driver) ==
    CASE driver \in {"unset", "none"}  -> "null"
      [] driver = "filesystem"         -> "FilesystemProvider"
      [] driver \in {"s3", "minio"}    -> "S3Provider"
      [] OTHER                         -> "throw"

createHostsProvider(driver) ==
    CASE driver \in {"unset", "none"}  -> "null"
      [] driver = "etc-hosts"          -> "EtcHostsProvider"
      [] OTHER                         -> "throw"

\* the registrations of registerDatabaseProviders, registerStorageProviders
\* and registerHostsProviders, in call order
BuiltinProviders ==
    << [type |-> "database", name |-> "mysql",      class |-> "MySQLProvider"],
       [type |-> "database", name |-> "postgres",   class |-> "PostgresProvider"],
       [type |-> "database", name |-> "postgresql", class |-> "PostgresProvider"],
       [type |-> "database", name |-> "sqlite",     class |-> "SQLiteProvider"],
       [type |-> "storage",  name |-> "filesystem", class |-> "FilesystemProvider"],
       [type |-> "storage",  name |-> "s3",         class |-> "S3Provider"],
       [type |-> "storage",  name |-> "minio",      class |-> "S3Provider"],
       [type |-> "hosts",    name |-> "etc-hosts",  class |-> "EtcHostsProvider"] >>

(***************************************************************************)
(* ProviderRegistry                                                        *)
(***************************************************************************)
\* Map.set(key, class): an existing key keeps its position
RegistrySet(reg, e) ==
    IF \E i \in 1..Len(reg) : reg[i].type = e.type /\ reg[i].name = e.name
    THEN [i \in 1..Len(reg) |->
            IF reg[i].type = e.type /\ reg[i].name = e.name THEN e ELSE reg[i]]
    ELSE Append(reg, e)

RECURSIVE RegistrySetAll(_, _)
RegistrySetAll(reg, es) ==
    IF es = <<>> THEN reg
    ELSE RegistrySetAll(RegistrySet(reg, Head(es)), Tail(es))

\* ProviderRegistry.get: the class, "" for null
RegistryGet(reg, type, name) ==
    IF \E i \in 1..Len(reg) : reg[i].type = type /\ reg[i].name = name
    THEN (CHOOSE e \in {reg[i] : i \in 1..Len(reg)} :
              e.type = type /\ e.name = name).class
    ELSE ""

\* listProviders without the `${type}:` prefix test: every registered name
listProvidersAll(reg, type) ==
    [i \in 1..Len(reg) |-> reg[i].name]

\* ProviderRegistry.listProviders: the names registered for a type, in
\* insertion order
listProviders(reg, type) ==
    LET ofType == SelectSeq(reg, LAMBDA e : e.type = type)
    IN  [i \in 1..Len(ofType) |-> ofType[i].name]

InstanceKeys == DOMAIN regInstances

\* the registrations a caller of the library makes on top of the built-in ones
CustomProviders ==
    { [type |-> "database", name |-> "mongo", class |-> "MongoProvider"],
      [type |-> "database", name |-> "mysql", class |-> "MySQLProvider"] }

register(e) ==
    /\ e \in CustomProviders
    /\ regProviders' = RegistrySet(regProviders, e)
    /\ ret' = Ret("register", e.type, "", 0, "return", 0, "", <<e.name>>)
    /\ UNCHANGED <<ctxConfig, ctxExecutor, ctxProviders, providersInitialized,
                   heap, regInstances, cmdOut, execRet, pmVars, moreVars>>

\* ProviderRegistry.resolve(type, config, executor), as a result record:
\* the new heap, the new instances map and the outcome
resolveNoCache(type, id, exe) ==
    LET driver == DriverOf(id, type)
        key    == <<type, driver>>
        class  == RegistryGet(regProviders, type, driver)
        r(o, v, e, l) == Ret("resolve", type, id, exe, o, v, e, l)
    IN  IF driver \in {"unset", "none"}
        THEN [heap |-> heap, inst |-> regInstances, ret |-> r("return", 0, "", <<>>)]
        ELSE IF class = ""
        THEN [heap |-> heap, inst |-> regInstances,
              ret |-> r("throw", 0, "ProviderNotFound",
                        listProviders(regProviders, type))]
        ELSE [heap |-> Append(heap, Obj(class, "registry", type, exe, id)),
              inst |-> [k \in InstanceKeys \cup {key} |->
                           IF k = key THEN Len(heap) + 1 ELSE regInstances[k]],
              ret |-> r("return", Len(heap) + 1, "", <<driver>>)]

resolveResult(type, id, exe) ==
    LET driver == DriverOf(id, type)
        key    == <<type, driver>>
        class  == RegistryGet(regProviders, type, driver)
        r(o, v, e, l) == Ret("resolve", type, id, exe, o, v, e, l)
    IN  IF driver \in {"unset", "none"}
        THEN [heap |-> heap, inst |-> regInstances, ret |-> r("return", 0, "", <<>>)]
        ELSE IF key \in InstanceKeys
        THEN [heap |-> heap, inst |-> regInstances,
              ret |-> r("return", regInstances[key], "", <<driver>>)]
        ELSE IF class = ""
        THEN [heap |-> heap, inst |-> regInstances,
              ret |-> r("throw", 0, "ProviderNotFound",
                        listProviders(regProviders, type))]
        ELSE [heap |-> Append(heap, Obj(class, "registry", type, exe, id)),
              inst |-> [k \in InstanceKeys \cup {key} |->
                           IF k = key THEN Len(heap) + 1 ELSE regInstances[k]],
              ret |-> r("return", Len(heap) + 1, "", <<driver>>)]

\* the calls made on the registry: two provider types; configurations that
\* agree on a driver (A, B), that leave a type unconfigured (B) and that name
\* unregistered drivers (C)
ResolveTypes == {"database", "hosts"}
ResolveConfigIds == {"A", "B", "C"}

\* the executors a caller can pass: none (the default null) or one that exists
ExecutorIds == {i \in Ids : heap[i].class \in ExecutorClasses}

resolve(type, id, exe) ==
    LET res == resolveResult(type, id, exe)
    IN  /\ type \in ResolveTypes
        /\ id \in ResolveConfigIds
        /\ exe \in ExecutorIds \cup {0}
        /\ Len(res.heap) <= MaxObjects
        /\ Cardinality({i \in 1..Len(res.heap) : res.heap[i].by = "registry"})
              <= MaxInstances
        /\ heap' = res.heap
        /\ regInstances' = res.inst
        /\ ret' = res.ret
        /\ UNCHANGED <<ctxConfig, ctxExecutor, ctxProviders, providersInitialized,
                       regProviders, cmdOut, execRet, pmVars, moreVars>>

clearInstances ==
    /\ regInstances' = << >>
    /\ ret' = Ret("clearInstances", "", "", 0, "return", 0, "", <<>>)
    /\ UNCHANGED <<ctxConfig, ctxExecutor, ctxProviders, providersInitialized,
                   heap, regProviders, cmdOut, execRet, pmVars, moreVars>>

clear ==
    /\ regProviders' = <<>>
    /\ regInstances' = << >>
    /\ ret' = Ret("clear", "", "", 0, "return", 0, "", <<>>)
    /\ UNCHANGED <<ctxConfig, ctxExecutor, ctxProviders, providersInitialized,
                   heap, cmdOut, execRet, pmVars, moreVars>>

(***************************************************************************)
(* Context                                                                 *)
(***************************************************************************)
\* Context.getExecutor as a result record: the executor is constructed on
\* the first call only
getExecutorNoMemo ==
    LET class == createExecutor(ctxConfig)
    IN  IF class = ""
        THEN [heap |-> heap, executor |-> ctxExecutor, outcome |-> "throw",
              value |-> 0, err |-> "UnknownExecutionMode"]
        ELSE [heap |-> Append(heap, Obj(class, "context", "executor", 0, ctxConfig)),
              executor |-> Len(heap) + 1, outcome |-> "return",
              value |-> Len(heap) + 1, err |-> ""]

getExecutorResult ==
    LET class == createExecutor(ctxConfig)
    IN  IF ctxExecutor # 0
        THEN [heap |-> heap, executor |-> ctxExecutor, outcome |-> "return",
              value |-> ctxExecutor, err |-> ""]
        ELSE IF class = ""
        THEN [heap |-> heap, executor |-> ctxExecutor, outcome |-> "throw",
              value |-> 0, err |-> "UnknownExecutionMode"]
        ELSE [heap |-> Append(heap, Obj(class, "context", "executor", 0, ctxConfig)),
              executor |-> Len(heap) + 1, outcome |-> "return",
              value |-> Len(heap) + 1, err |-> ""]

getExecutor ==
    LET res == getExecutorResult
    IN  /\ Len(res.heap) <= MaxObjects
        /\ heap' = res.heap
        /\ ctxExecutor' = res.executor
        /\ ret' = Ret("getExecutor", "", ctxConfig, 0, res.outcome, res.value,
                      res.err, <<>>)
        /\ UNCHANGED <<ctxConfig, ctxProviders, providersInitialized, regProviders,
                       regInstances, cmdOut, execRet, pmVars, moreVars>>

\* Context.initializeProviders: the registry after the call
initializeProvidersResult ==
    IF providersInitialized THEN regProviders
    ELSE RegistrySetAll(regProviders, BuiltinProviders)

initializeProviders ==
    /\ regProviders' = initializeProvidersResult
    /\ providersInitialized' = TRUE
    /\ ret' = Ret("initializeProviders", "", ctxConfig, 0, "return", 0, "", <<>>)
    /\ UNCHANGED <<ctxConfig, ctxExecutor, ctxProviders, heap, regInstances,
                   cmdOut, execRet, pmVars, moreVars>>

\* the factory Context.getProvider switches to
createProvider(type, driver) ==
    CASE type = "database" -> createDatabaseProvider(driver)
      [] type = "storage"  -> createStorageProvider(driver)
      [] type = "hosts"    -> createHostsProvider(driver)

\* Context._providers[type]; a key that was never assigned is undefined
CachedProvider(type) ==
    IF type \in DOMAIN ctxProviders THEN ctxProviders[type] ELSE Undefined

\* Context.getProvider(type) as a result record
getProviderResult(type) ==
    LET ex    == getExecutorResult
        class == createProvider(type, DriverOf(ctxConfig, type))
        same  == [heap |-> heap, executor |-> ctxExecutor, providers |-> ctxProviders]
    IN  IF CachedProvider(type) # Undefined
        THEN same @@ [outcome |-> "return", value |-> CachedProvider(type), err |-> ""]
        ELSE IF ex.outcome = "throw"
        THEN same @@ [outcome |-> "throw", value |-> 0, err |-> ex.err]
        ELSE IF type \notin ProviderTypes
        THEN [heap |-> ex.heap, executor |-> ex.executor, providers |-> ctxProviders,
              outcome |-> "throw", value |-> 0, err |-> "UnknownProviderType"]
        ELSE IF class = "throw"
        THEN [heap |-> ex.heap, executor |-> ex.executor, providers |-> ctxProviders,
              outcome |-> "throw", value |-> 0, err |-> "UnknownDriver"]
        ELSE IF class = "null"
        THEN [heap |-> ex.heap, executor |-> ex.executor,
              providers |-> [ctxProviders EXCEPT ![type] = 0],
              outcome |-> "return", value |-> 0, err |-> ""]
        ELSE [heap |-> Append(ex.heap, Obj(class, "context", type, ex.executor, ctxConfig)),
              executor |-> ex.executor,
              providers |-> [ctxProviders EXCEPT ![type] = Len(ex.heap) + 1],
              outcome |-> "return", value |-> Len(ex.heap) + 1, err |-> ""]

getProvider(type) ==
    LET res == getProviderResult(type)
    IN  /\ type \in ProviderTypes \cup {"cache"}
        /\ Len(res.heap) <= MaxObjects
        /\ heap' = res.heap
        /\ ctxExecutor' = res.executor
        /\ ctxProviders' = res.providers
        /\ regProviders' = initializeProvidersResult
        /\ providersInitialized' = TRUE
        /\ ret' = Ret("getProvider", type, ctxConfig, 0, res.outcome, res.value,
                      res.err, <<>>)
        /\ UNCHANGED <<ctxConfig, regInstances, cmdOut, execRet, pmVars, moreVars>>

(***************************************************************************)
(* Executors.  A capability call is a function of the variant, the method  *)
(* and the environment the call meets:                                     *)
(*   mapped      the service key has an entry in docker.containers         *)
(*   dockerUp    `docker info` succeeds (DockerExecutor.isAvailable)       *)
(*   composeFile findComposeFile() finds a compose definition              *)
(*   host        ssh.host is configured                                    *)
(*   exit        exit code of the wrapped subprocess; NoExitCode when the  *)
(*               subprocess fails without one (it could not be spawned)    *)
(***************************************************************************)
NoExitCode == -1
ExitCodes  == {NoExitCode, 0, 1, 2}

Envs == [mapped : BOOLEAN, dockerUp : BOOLEAN, composeFile : BOOLEAN,
         host : BOOLEAN, exit : ExitCodes]

CapabilityMethods == {"run", "runInService", "start", "stop", "restart",
                      "status", "logs"}

\* a result: outcome "return" or "raise"; shape of the returned value;
\* spawned counts every subprocess started, the `docker info` probe included;
\* failed says that the wrapped subprocess was started and did not exit 0
ExecResult(outcome, shape, exitCode, err, spawned, failed) ==
    [outcome |-> outcome, shape |-> shape, exitCode |-> exitCode, err |-> err,
     spawned |-> spawned, failed |-> failed]

\* try { result = await execa(...) } catch (error) { ... }: the record both
\* branches build, after n earlier subprocesses
Captured(env, n) ==
    ExecResult("return", "record",
               IF env.exit = 0 THEN 0
               ELSE IF env.exit = NoExitCode THEN 1 ELSE env.exit,
               "", n + 1, env.exit # 0)

\* DockerExecutor.compose: ensureDockerRunning, findComposeFile, then the
\* execa promise itself is returned, which rejects on a failing subprocess
compose(env) ==
    IF ~env.dockerUp THEN ExecResult("raise", "none", 0, "DockerNotRunning", 1, FALSE)
    ELSE IF ~env.composeFile THEN ExecResult("raise", "none", 0, "NoComposeFile", 1, FALSE)
    ELSE IF env.exit = 0 THEN ExecResult("return", "record", 0, "", 2, FALSE)
    ELSE ExecResult("raise", "none", 0, "SubprocessFailed", 2, TRUE)

\* status(): try { compose / run ... parse lines } catch { return [] }
StatusOf(r) ==
    ExecResult("return", "list", 0, "", r.spawned, r.failed)

DockerRunInService(env) ==
    IF ~env.mapped THEN ExecResult("raise", "none", 0, "ServiceNotConfigured", 0, FALSE)
    ELSE IF ~env.dockerUp THEN ExecResult("raise", "none", 0, "DockerNotRunning", 1, FALSE)
    ELSE Captured(env, 1)

DockerExecutor(method, env) ==
    CASE method = "run"          -> Captured(env, 0)
      [] method = "runInService" -> DockerRunInService(env)
      [] method \in {"start", "stop", "restart", "logs"} -> compose(env)
      [] method = "status"       -> StatusOf(compose(env))

NativeExecutor(method, env) ==
    CASE method \in {"run", "runInService"} -> Captured(env, 0)
      [] method \in {"start", "stop", "restart", "logs"} ->
            ExecResult("return", "void", 0, "", 0, FALSE)
      [] method = "status" -> ExecResult("return", "list", 0, "", 0, FALSE)

SSHRun(env) ==
    IF ~env.host THEN ExecResult("raise", "none", 0, "HostNotConfigured", 0, FALSE)
    ELSE Captured(env, 0)

SSHExecutor(method, env) ==
    CASE method \in {"run", "runInService", "start", "stop", "restart", "logs"} ->
            SSHRun(env)
      [] method = "status" -> StatusOf(SSHRun(env))

ExecutorCall(class, method, env) ==
    CASE class = "DockerExecutor" -> DockerExecutor(method, env)
      [] class = "NativeExecutor" -> NativeExecutor(method, env)
      [] class = "SSHExecutor"    -> SSHExecutor(method, env)

NoExec == [class |-> "none", method |-> "none",
           env |-> [mapped |-> FALSE, dockerUp |-> FALSE, composeFile |-> FALSE,
                    host |-> FALSE, exit |-> 0],
           res |-> ExecResult("none", "none", 0, "", 0, FALSE)]

\* one capability call on an executor of the given variant
Call(class, method, env) ==
    /\ class \in ExecutorClasses
    /\ method \in CapabilityMethods
    /\ env \in Envs
    /\ execRet' = [class |-> class, method |-> method, env |-> env,
                   res |-> ExecutorCall(class, method, env)]
    /\ UNCHANGED <<lateVars, ctxVars, pmVars, moreVars>>

(***************************************************************************)
(* MySQLProvider operations, through the executor the provider was built   *)
(* with.  inp.dbName: the credentials name a database; inp.files: number   *)
(* of files the listing finds; inp.fileArg: the [file] argument ("none",   *)
(* "exists", "missing"); inp.pick / inp.confirmed: the answers to prompts. *)
(***************************************************************************)
DbInputs == [dbName : BOOLEAN, files : 0..1, fileArg : {"none", "exists", "missing"},
             pick : BOOLEAN, confirmed : BOOLEAN]

\* the environments that differ for runInService (compose files play no part)
DbEnvs == {env \in Envs : env.composeFile}

\* the inputs a command reads; the others are held at a default
DbInputsFor(c) ==
    {inp \in DbInputs :
        /\ c \notin {"db:backup", "db:snapshot", "db:size", "db:restore", "db:rollback"}
              => inp.dbName
        /\ c \notin {"db:list", "db:restore", "db:rollback"} => inp.files = 0
        /\ c # "db:restore" => inp.fileArg = "none" /\ inp.pick
        /\ c \notin {"db:restore", "db:rollback"} => inp.confirmed}

OpResult(outcome, spawned, err) ==
    [outcome |-> outcome, spawned |-> spawned, err |-> err]

\* an operation that returns whatever executor.runInService returns
Delegated(class, env) ==
    LET r == ExecutorCall(class, "runInService", env)
    IN  OpResult(IF r.outcome = "raise" THEN "throw" ELSE "return", r.spawned, r.err)

\* an operation that inspects result.exitCode and throws when it is not 0
Checked(class, env, err) ==
    LET r == ExecutorCall(class, "runInService", env)
    IN  IF r.outcome = "raise" THEN OpResult("throw", r.spawned, r.err)
        ELSE IF r.exitCode # 0 THEN OpResult("throw", r.spawned, err)
        ELSE OpResult("return", r.spawned, "")

MySQLconnect(class, env) == Delegated(class, env)

MySQLbackup(class, env, inp) ==
    IF ~inp.dbName THEN OpResult("throw", 0, "Database name not configured")
    ELSE Checked(class, env, "Backup failed")

MySQLrestore(class, env, inp, sourceExists) ==
    IF ~inp.dbName THEN OpResult("throw", 0, "Database name not configured")
    ELSE IF ~sourceExists THEN OpResult("throw", 0, "Backup file not found")
    ELSE Delegated(class, env)

MySQLsnapshot(class, env, inp) == MySQLbackup(class, env, inp)

MySQLrollback(class, env, inp) ==
    IF inp.files = 0 THEN OpResult("throw", 0, "No snapshots available")
    ELSE MySQLrestore(class, env, inp, TRUE)

MySQLgetSize(class, env, inp) ==
    IF ~inp.dbName THEN OpResult("throw", 0, "Database name not configured")
    ELSE Checked(class, env, "Failed to get database size")

(***************************************************************************)
(* The database commands (db, db:backup, db:restore, db:snapshot,          *)
(* db:rollback, db:size, db:list).  Each first asks the Context for the    *)
(* database provider and returns early when there is none.                 *)
(***************************************************************************)
DbCommandNames == {"db", "db:backup", "db:restore", "db:snapshot", "db:rollback",
                   "db:size", "db:list"}

CmdOut(c, messages, spawned, outcome) ==
    [cmd |-> c, messages |-> messages, spawned |-> spawned, outcome |-> outcome]

NoCmdOut == CmdOut("none", <<>>, 0, "none")

\* try { await op; status.success(ok) } catch { status.error(bad); throw }
Report(c, first, r, ok, bad) ==
    IF r.outcome = "return"
    THEN CmdOut(c, first \o <<ok>>, r.spawned, "return")
    ELSE CmdOut(c, first \o <<bad>>, r.spawned, "throw")

\* the body of a command once the provider is known to be present
DbCommandBody(c, class, env, inp) ==
    CASE c = "db" ->
            LET r == MySQLconnect(class, env)
            IN  CmdOut(c, <<"Connecting to database...">>, r.spawned,
                       IF r.outcome = "return" THEN "return" ELSE "throw")
      [] c = "db:backup" ->
            Report(c, <<"Backing up database...">>, MySQLbackup(class, env, inp),
                   "Database backed up", "Backup failed")
      [] c = "db:snapshot" ->
            Report(c, <<"Creating quick database snapshot...">>,
                   MySQLsnapshot(class, env, inp), "Snapshot saved", "Snapshot failed")
      [] c = "db:size" ->
            Report(c, <<>>, MySQLgetSize(class, env, inp),
                   "Database size", "Failed to get database size")
      [] c = "db:list" ->
            CmdOut(c, IF inp.files = 0 THEN <<"No backups or snapshots found">>
                      ELSE <<"Backups:">>, 0, "return")
      [] c = "db:restore" ->
            IF inp.fileArg = "none" /\ inp.files = 0
            THEN CmdOut(c, <<"No backup files found">>, 0, "return")
            ELSE IF inp.fileArg = "none" /\ ~inp.pick
            THEN CmdOut(c, <<"Operation cancelled.">>, 0, "return")
            ELSE IF inp.fileArg = "missing"
            THEN CmdOut(c, <<"Backup file not found">>, 0, "return")
            ELSE IF ~inp.confirmed
            THEN CmdOut(c, <<"Operation cancelled.">>, 0, "return")
            ELSE Report(c, <<"Restoring database...">>,
                        MySQLrestore(class, env, inp, TRUE),
                        "Database restored", "Restore failed")
      [] c = "db:rollback" ->
            IF inp.files = 0
            THEN CmdOut(c, <<"No snapshots found">>, 0, "return")
            ELSE IF ~inp.confirmed
            THEN CmdOut(c, <<"Operation cancelled.">>, 0, "return")
            ELSE Report(c, <<"Rolling back...">>, MySQLrollback(class, env, inp),
                        "Database rolled back", "Rollback failed")

\* provider = context.getDatabaseProvider(); if (!provider) { error; return }
DbCommandResult(c, res, env, inp) ==
    IF res.outcome = "throw" THEN CmdOut(c, <<>>, 0, "throw")
    ELSE IF res.value = 0
    THEN CmdOut(c, <<"Database is not configured">>, 0, "return")
    ELSE DbCommandBody(c, res.heap[res.heap[res.value].executor].class, env, inp)

\* MySQLProvider.restore ends in `return this.executor.runInService(...)`:
\* the call db:restore and db:rollback await when restore gets that far, and
\* the result they are handed
DbRestoreExec(c, res, env, inp) ==
    IF c \notin {"db:restore", "db:rollback"}
          \/ DbCommandResult(c, res, env, inp).spawned = 0
    THEN NoExec
    ELSE LET class == res.heap[res.heap[res.value].executor].class
         IN  [class |-> class, method |-> "runInService", env |-> env,
              res |-> ExecutorCall(class, "runInService", env)]

DbCommand(c, env, inp) ==
    LET res == getProviderResult("database")
    IN  /\ c \in DbCommandNames
        /\ env \in DbEnvs
        /\ inp \in DbInputsFor(c)
        /\ Len(res.heap) <= MaxObjects
        /\ heap' = res.heap
        /\ ctxExecutor' = res.executor
        /\ ctxProviders' = res.providers
        /\ regProviders' = initializeProvidersResult
        /\ providersInitialized' = TRUE
        /\ ret' = Ret("getProvider", "database", ctxConfig, 0, res.outcome,
                      res.value, res.err, <<>>)
        /\ cmdOut' = DbCommandResult(c, res, env, inp)
        /\ execRet' = DbRestoreExec(c, res, env, inp)
        /\ UNCHANGED <<ctxConfig, regInstances, pmVars, moreVars>>

(***************************************************************************)
(* PluginManager.  The plugin modules found under pluginsDir:              *)
(*   exists     <pluginsDir>/<name>/index.js exists                        *)
(*   importOk   import() of the module succeeds                            *)
(*   hasName / hasVersion   the fields validatePlugin asks for             *)
(*   commands   "function" (lazy provider), "array" or "none"              *)
(*   before / after   the manifest has a beforeCommand / afterCommand hook *)
(* The manifest object of a module is identified by the plugin's name: the *)
(* module cache hands out one default export per path.                     *)
(***************************************************************************)
PluginNames == {"laravel", "static", "broken", "throws", "missing"}

Module(exists, importOk, hasName, hasVersion, commands, before, after) ==
    [exists |-> exists, importOk |-> importOk, hasName |-> hasName,
     hasVersion |-> hasVersion, commands |-> commands,
     before |-> before, after |-> after]

PluginModule(name) ==
    CASE name = "laravel" -> Module(TRUE, TRUE, TRUE, TRUE, "function", TRUE, TRUE)
      [] name = "static"  -> Module(TRUE, TRUE, TRUE, TRUE, "array", TRUE, FALSE)
      [] name = "broken"  -> Module(TRUE, TRUE, TRUE, FALSE, "function", TRUE, TRUE)
      [] name = "throws"  -> Module(TRUE, FALSE, FALSE, FALSE, "none", FALSE, FALSE)
      [] name = "missing" -> Module(FALSE, FALSE, FALSE, FALSE, "none", FALSE, FALSE)

Range(q) == {q[i] : i \in 1..Len(q)}

\* the lists over S of length at most n that name no plugin twice
RECURSIVE SeqsUpTo(_, _)
SeqsUpTo(S, n) ==
    IF n = 0 THEN {<<>>}
    ELSE LET shorter == SeqsUpTo(S, n - 1)
             longest == {r \in shorter : Len(r) = n - 1}
         IN  shorter \cup
             UNION {{Append(q, x) : x \in S \ Range(q)} : q \in longest}

\* the lists of names loadPlugins is called with
NameLists == SeqsUpTo(PluginNames, MaxNames)

NoStats == [imports |-> 0, validations |-> 0, providerCalls |-> 0,
            requests |-> 0, attempts |-> 0, failures |-> 0]

Idle == [op |-> "idle", all |-> <<>>, names |-> <<>>, loading |-> "",
         results |-> <<>>, warned |-> <<>>]

PmRet(op, name, names, outcome, value, results, warned, err) ==
    [op |-> op, name |-> name, names |-> names, outcome |-> outcome,
     value |-> value, results |-> results, warned |-> warned, err |-> err,
     cached |-> FALSE]

NoPmRet == PmRet("none", "", <<>>, "none", "", <<>>, <<>>, "")

\* this.plugins.has(name), skipped
hasNever(name) == FALSE

\* this.plugins.has(name)
has(name) == name \in Range(pmPlugins)

\* this.plugins.set(name, plugin)
PluginsSet(plugins, name) ==
    IF name \in Range(plugins) THEN plugins ELSE Append(plugins, name)

\* validatePlugin passes
validatePlugin(name) == PluginModule(name).hasName /\ PluginModule(name).hasVersion

\* the counters after a successful load that also materializes the commands
LoadedStatsEager(st, name) ==
    [st EXCEPT ![name].imports = @ + 1, ![name].validations = @ + 1,
               ![name].providerCalls = @ + 1]

\* the counters after import + validatePlugin + plugins.set
LoadedStats(st, name) ==
    [st EXCEPT ![name].imports = @ + 1, ![name].validations = @ + 1]

\* the counters after a load attempt that threw after the existence check
FailedStats(st, name) ==
    [st EXCEPT ![name].imports = @ + 1,
               ![name].validations = IF PluginModule(name).importOk THEN @ + 1 ELSE @,
               ![name].failures = @ + 1]

\* loadPlugins without the try/catch: the first failure ends the loop
loadPluginsAbort(call, name) ==
    [call EXCEPT !.names = <<>>, !.loading = ""]

\* loadPlugins' catch block: warn and go on with the next name
loadPluginsCatch(call, name) ==
    [call EXCEPT !.names = Tail(@), !.loading = "", !.warned = Append(@, name)]

loadPluginsPush(call, name) ==
    [call EXCEPT !.names = Tail(@), !.loading = "", !.results = Append(@, name)]

PmIdle == pmCall.op = "idle" /\ cmd.pc = "idle"

\* loadPlugin(name) up to its await: cached manifest, "not found", or the
\* import is started
loadPlugin(name) ==
    /\ PmIdle
    /\ pmCalls < MaxPmCalls
    /\ name \in PluginNames
    /\ pmCalls' = pmCalls + 1
    /\ IF has(name)
       THEN /\ pmRet' = [PmRet("loadPlugin", name, <<>>, "return", name,
                               <<>>, <<>>, "") EXCEPT !.cached = TRUE]
            /\ UNCHANGED <<pmCall, pmStats>>
       ELSE IF ~PluginModule(name).exists
       THEN /\ pmRet' = PmRet("loadPlugin", name, <<>>, "throw", "", <<>>, <<>>,
                              "not found")
            /\ pmStats' = [pmStats EXCEPT ![name].attempts = @ + 1,
                                          ![name].failures = @ + 1]
            /\ UNCHANGED pmCall
       ELSE /\ pmCall' = [Idle EXCEPT !.op = "loadPlugin", !.loading = name]
            /\ pmStats' = [pmStats EXCEPT ![name].attempts = @ + 1]
            /\ UNCHANGED pmRet
    /\ UNCHANGED <<pmPlugins, cmd, ctxVars, execRet, moreVars>>

\* loadPlugin(name) after its await: validatePlugin, plugins.set, return; any
\* failure is rethrown
loadPluginImported ==
    LET name == pmCall.loading
        ok   == PluginModule(name).importOk /\ validatePlugin(name)
    IN  /\ pmCall.op = "loadPlugin"
        /\ pmCall' = Idle
        /\ IF ok
           THEN /\ pmPlugins' = PluginsSet(pmPlugins, name)
                /\ pmStats' = LoadedStats(pmStats, name)
                /\ pmRet' = PmRet("loadPlugin", name, <<>>, "return", name,
                                  <<>>, <<>>, "")
           ELSE /\ pmStats' = FailedStats(pmStats, name)
                /\ pmRet' = PmRet("loadPlugin", name, <<>>, "throw", "", <<>>, <<>>,
                                  "Failed to load plugin")
                /\ UNCHANGED pmPlugins
        /\ UNCHANGED <<pmCalls, cmd, ctxVars, execRet, moreVars>>

\* loadPlugins(names): entry
loadPlugins(names) ==
    /\ PmIdle
    /\ pmCalls < MaxPmCalls
    /\ names \in NameLists
    /\ pmCalls' = pmCalls + 1
    /\ pmCall' = [Idle EXCEPT !.op = "loadPlugins", !.all = names, !.names = names]
    /\ UNCHANGED <<pmPlugins, pmRet, pmStats, cmd, ctxVars, execRet, moreVars>>

\* one iteration of the loop, up to the await inside loadPlugin
loadPluginsNext ==
    LET name == Head(pmCall.names)
    IN  /\ pmCall.op = "loadPlugins"
        /\ pmCall.loading = ""
        /\ pmCall.names # <<>>
        /\ IF has(name)
           THEN /\ pmCall' = loadPluginsPush(pmCall, name)
                /\ UNCHANGED pmStats
           ELSE IF ~PluginModule(name).exists
           THEN /\ pmCall' = loadPluginsCatch(pmCall, name)
                /\ pmStats' = [pmStats EXCEPT ![name].attempts = @ + 1,
                                              ![name].failures = @ + 1]
           ELSE /\ pmCall' = [pmCall EXCEPT !.loading = name]
                /\ pmStats' = [pmStats EXCEPT ![name].attempts = @ + 1]
        /\ UNCHANGED <<pmPlugins, pmRet, pmCalls, cmd, ctxVars, execRet, moreVars>>

\* the same iteration after the await
loadPluginsImported ==
    LET name == pmCall.loading
        ok   == PluginModule(name).importOk /\ validatePlugin(name)
    IN  /\ pmCall.op = "loadPlugins"
        /\ pmCall.loading # ""
        /\ IF ok
           THEN /\ pmPlugins' = PluginsSet(pmPlugins, name)
                /\ pmStats' = LoadedStats(pmStats, name)
                /\ pmCall' = loadPluginsPush(pmCall, name)
           ELSE /\ pmStats' = FailedStats(pmStats, name)
                /\ pmCall' = loadPluginsCatch(pmCall, name)
                /\ UNCHANGED pmPlugins
        /\ UNCHANGED <<pmRet, pmCalls, cmd, ctxVars, execRet, moreVars>>

\* return results
loadPluginsReturn ==
    /\ pmCall.op = "loadPlugins"
    /\ pmCall.loading = ""
    /\ pmCall.names = <<>>
    /\ pmRet' = PmRet("loadPlugins", "", pmCall.all, "return", "", pmCall.results,
                      pmCall.warned, "")
    /\ pmCall' = Idle
    /\ UNCHANGED <<pmPlugins, pmStats, pmCalls, cmd, ctxVars, execRet, moreVars>>

\* getCommands(name): a function-valued `commands` is called on every request
getCommands(name) ==
    /\ PmIdle
    /\ pmCalls < MaxPmCalls
    /\ name \in PluginNames
    /\ pmCalls' = pmCalls + 1
    /\ IF ~has(name)
       THEN /\ pmRet' = PmRet("getCommands", name, <<>>, "throw", "", <<>>, <<>>,
                              "not loaded")
            /\ pmStats' = [pmStats EXCEPT ![name].requests = @ + 1]
       ELSE /\ pmRet' = PmRet("getCommands", name, <<>>, "return",
                              PluginModule(name).commands, <<>>, <<>>, "")
            /\ pmStats' = [pmStats EXCEPT
                  ![name].requests = @ + 1,
                  ![name].providerCalls =
                      IF PluginModule(name).commands = "function" THEN @ + 1 ELSE @]
    /\ UNCHANGED <<pmPlugins, pmCall, cmd, ctxVars, execRet, moreVars>>

\* this.plugins.clear() in the place of this.plugins.delete(name)
PluginsDeleteAll(plugins, name) == <<>>

\* this.plugins.delete(name)
PluginsDelete(plugins, name) == SelectSeq(plugins, LAMBDA n : n # name)

\* unloadPlugin(name)
unloadPlugin(name) ==
    /\ PmIdle
    /\ pmCalls < MaxPmCalls
    /\ name \in PluginNames
    /\ pmCalls' = pmCalls + 1
    /\ pmPlugins' = PluginsDelete(pmPlugins, name)
    /\ pmRet' = PmRet("unloadPlugin", name, <<>>, "return", "", <<>>, <<>>, "")
    /\ UNCHANGED <<pmCall, pmStats, cmd, ctxVars, execRet, moreVars>>

\* unloadAll()
unloadAll ==
    /\ PmIdle
    /\ pmCalls < MaxPmCalls
    /\ pmCalls' = pmCalls + 1
    /\ pmPlugins' = <<>>
    /\ pmRet' = PmRet("unloadAll", "", <<>>, "return", "", <<>>, <<>>, "")
    /\ UNCHANGED <<pmCall, pmStats, cmd, ctxVars, execRet, moreVars>>

(***************************************************************************)
(* The action wrapper registerSingleCommand binds to a leaf command:       *)
(*   try { await runHook('beforeCommand'); result = await action(...);     *)
(*         await runHook('afterCommand', result); return result }          *)
(*   catch (error) { status.error(...); process.exit(1) }                  *)
(* A hook may return, throw an Error, or throw / reject with no value      *)
(* (undefined or null).                                                    *)
(***************************************************************************)
HookOutcomes == {"ok", "throwError", "throwNullish"}

NoCmd == [pc |-> "idle", queue |-> <<>>, events |-> <<>>, beforeThrew |-> FALSE,
          actionInvoked |-> FALSE, actionReturned |-> FALSE, hookExit |-> FALSE,
          exitCode |-> 0, args |-> <<>>, actionArgs |-> <<>>, result |-> "",
          afterGot |-> <<>>]

\* the arguments Commander calls the handler with: the positional arguments,
\* then the parsed options, then the Command object
PositionalArgs == {<<>>, <<"arg1">>, <<"arg1", "arg2">>}
CommanderArgs(positional) == positional \o <<"options", "command">>

\* options = args[args.length - 2]; commandArgs = args.slice(0, -2);
\* commandDef.action(options, context, ...commandArgs)
ActionArgs(args) ==
    <<args[Len(args) - 1], "context">> \o SubSeq(args, 1, Len(args) - 2)

Event(phase, name, what) == [phase |-> phase, name |-> name, what |-> what]

\* runHook's catch block, console.warn(`... ${error.message}`): reading
\* .message of undefined / null raises a TypeError inside the catch block,
\* which leaves runHook
hookCatch(o) == IF o = "throwNullish" THEN "propagate" ELSE "continue"

\* the user selects a leaf command: the wrapper starts runHook('beforeCommand')
invoke ==
    /\ PmIdle
    /\ \E positional \in PositionalArgs :
          cmd' = [cmd EXCEPT !.pc = "before", !.queue = pmPlugins,
                             !.args = CommanderArgs(positional)]
    /\ UNCHANGED <<pmPlugins, pmCall, pmRet, pmStats, pmCalls, ctxVars, execRet, moreVars>>

\* one iteration of runHook's loop over the loaded plugins
runHook(o) ==
    LET name    == Head(cmd.queue)
        hasHook == IF cmd.pc = "before" THEN PluginModule(name).before
                   ELSE PluginModule(name).after
        threw   == hasHook /\ o # "ok"
        \* runHook('afterCommand', context, commandDef, result)
        got     == IF cmd.pc = "after" THEN Append(cmd.afterGot, cmd.result)
                   ELSE cmd.afterGot
    IN  /\ cmd.pc \in {"before", "after"}
        /\ cmd.queue # <<>>
        /\ o \in HookOutcomes
        /\ ~hasHook => o = "ok"
        /\ cmd' =
             IF ~hasHook THEN [cmd EXCEPT !.queue = Tail(@)]
             ELSE IF o = "ok"
             THEN [cmd EXCEPT !.queue = Tail(@), !.afterGot = got,
                              !.events = Append(@, Event(cmd.pc, name, "ran"))]
             ELSE IF hookCatch(o) = "continue"
             THEN [cmd EXCEPT !.queue = Tail(@), !.afterGot = got,
                              !.events = Append(@, Event(cmd.pc, name, "warned")),
                              !.beforeThrew = @ \/ cmd.pc = "before"]
             ELSE [cmd EXCEPT !.queue = <<>>, !.afterGot = got,
                              !.events = Append(@, Event(cmd.pc, name, "crashed")),
                              !.beforeThrew = @ \/ cmd.pc = "before",
                              !.hookExit = TRUE, !.exitCode = 1, !.pc = "exit"]
        /\ UNCHANGED <<pmPlugins, pmCall, pmRet, pmStats, pmCalls, ctxVars, execRet, moreVars>>

\* a call that is not awaited: the next statement runs at once
notAwaited(queue) == TRUE

\* await pluginManager.runHook(...): the loop over the plugins has ended
awaited(queue) == queue = <<>>

\* result = await commandDef.action(options, context, ...commandArgs)
runAction(o) ==
    /\ cmd.pc = "before"
    /\ awaited(cmd.queue)
    /\ o \in {"return", "throw"}
    /\ cmd' =
         IF o = "return"
         THEN [cmd EXCEPT !.pc = "after", !.queue = pmPlugins,
                          !.events = Append(@, Event("action", "", "returned")),
                          !.actionInvoked = TRUE, !.actionReturned = TRUE,
                          !.actionArgs = ActionArgs(cmd.args), !.result = "result"]
         ELSE [cmd EXCEPT !.pc = "exit", !.exitCode = 1,
                          !.events = Append(@, Event("action", "", "threw")),
                          !.actionInvoked = TRUE,
                          !.actionArgs = ActionArgs(cmd.args)]
    /\ UNCHANGED <<pmPlugins, pmCall, pmRet, pmStats, pmCalls, ctxVars, execRet, moreVars>>

\* return result
finish ==
    /\ cmd.pc = "after"
    /\ awaited(cmd.queue)
    /\ cmd' = [cmd EXCEPT !.pc = "done"]
    /\ UNCHANGED <<pmPlugins, pmCall, pmRet, pmStats, pmCalls, ctxVars, execRet, moreVars>>

(***************************************************************************)
(* command-loader.js.  A command definition is identified by the place it   *)
(* was exported from (`src`, a path of positions) and described by `kind`:  *)
(*   "leaf"        name and action                                         *)
(*   "group"       name and two subcommands, no action                     *)
(*   "both"        name, action and two subcommands                        *)
(*   "hollow"      name only                                               *)
(*   "emptygroup"  name and `subcommands: []`, no action                   *)
(*   "anon"        action but no name                                      *)
(***************************************************************************)
DefKinds == {"leaf", "group", "both", "hollow", "emptygroup", "anon"}

CommandDef(src, kind) == [src |-> src, kind |-> kind]

\* the fields of a definition the loader looks at
DefName(d)   == d.kind # "anon"
DefAction(d) == d.kind \in {"leaf", "both", "anon"}
DefSubcommandsIsArray(d) == d.kind \in {"group", "both", "emptygroup"}

\* commandDef.subcommands, for a definition whose subcommands is an array
DefSubcommands(d) ==
    IF d.kind \in {"group", "both"}
    THEN << CommandDef(Append(d.src, 1), "leaf"), CommandDef(Append(d.src, 2), "leaf") >>
    ELSE <<>>

\* isValidCommand in loadCommandModule
isValidCommand(d) ==
    DefName(d) /\ (DefSubcommandsIsArray(d) \/ DefAction(d))

\* what a .js file evaluates to: a default export that is one definition
\* ("single") or an array of definitions ("array"), or a failing import
Export(shape, kinds) == [shape |-> shape, kinds |-> kinds]

Exports ==
    {Export("single", <<k>>) : k \in DefKinds} \cup
    { Export("array", <<"leaf", "hollow">>), Export("array", <<"hollow", "group">>),
      Export("array", <<>>), Export("throws", <<>>) }

\* the definitions a module exports, in order
Offered(export, src) ==
    [i \in 1..Len(export.kinds) |-> CommandDef(Append(src, i), export.kinds[i])]

\* a load result: the definitions kept and the places warned about
Loaded(commands, warnings) == [commands |-> commands, warnings |-> warnings]

\* loadCommandModule(filePath)
loadCommandModule(export, src) ==
    LET offered == Offered(export, src)
        invalid == SelectSeq(offered, LAMBDA d : ~isValidCommand(d))
    IN  IF export.shape = "throws" THEN Loaded(<<>>, <<src>>)
        ELSE Loaded(SelectSeq(offered, isValidCommand),
                    [i \in 1..Len(invalid) |-> invalid[i].src])


\* a directory entry: a .js file with its export, a subdirectory with its
\* entries, or another file
NoExport == Export("none", <<>>)

Entry(type, export, entries) == [type |-> type, export |-> export, entries |-> entries]

DirEntries ==
    {Entry("js", e, <<>>) : e \in Exports} \cup
    {Entry("dir", NoExport, <<>>)} \cup
    {Entry("dir", NoExport, <<Entry("js", e, <<>>)>>) :
        e \in {Export("single", <<"leaf">>), Export("single", <<"hollow">>),
               Export("throws", <<>>)}} \cup
    {Entry("other", NoExport, <<>>)}

\* the lists over S of length at most n
RECURSIVE ListsUpTo(_, _)
ListsUpTo(S, n) ==
    IF n = 0 THEN {<<>>}
    ELSE LET shorter == ListsUpTo(S, n - 1)
         IN  shorter \cup
             {Append(q, x) : q \in {r \in shorter : Len(r) = n - 1}, x \in S}

Dir(exists, entries) == [exists |-> exists, entries |-> entries]

\* the directories loadCommandsFromDirectory is called on
Dirs ==
    {Dir(FALSE, <<>>)} \cup {Dir(TRUE, q) : q \in ListsUpTo(DirEntries, MaxFiles)}

\* `commands = loaded` in the place of commands.push(...loaded)
dirAssign(commands, loaded) == loaded

\* commands.push(...loadedCommands)
dirPush(commands, loaded) == commands \o loaded

\* the loop of loadCommandsFromDirectory from entry i on; `acc` is what the
\* earlier entries gave
RECURSIVE loadEntries(_, _, _, _)
loadEntries(entries, path, i, acc) ==
    IF i > Len(entries) THEN acc
    ELSE LET e    == entries[i]
             here == CASE e.type = "dir" ->
                            loadEntries(e.entries, Append(path, i), 1, Loaded(<<>>, <<>>))
                       [] e.type = "js" -> loadCommandModule(e.export, Append(path, i))
                       [] OTHER -> Loaded(<<>>, <<>>)
         IN  loadEntries(entries, path, i + 1,
                         Loaded(dirPush(acc.commands, here.commands),
                                acc.warnings \o here.warnings))

\* loadCommandsFromDirectory(dirPath), as a result
loadCommandsFromDirectoryResult(dir, path) ==
    IF ~dir.exists THEN Loaded(<<>>, <<>>)
    ELSE loadEntries(dir.entries, path, 1, Loaded(<<>>, <<>>))

NoDirRet == [dir |-> Dir(FALSE, <<>>), called |-> FALSE, res |-> Loaded(<<>>, <<>>)]

\* loadCommandsFromDirectory(dirPath)
loadCommandsFromDirectory(dir) ==
    /\ ~dirRet.called
    /\ dir \in Dirs
    /\ dirRet' = [dir |-> dir, called |-> TRUE,
                  res |-> loadCommandsFromDirectoryResult(dir, <<>>)]
    /\ UNCHANGED <<lateVars, ctxVars, pmVars, execRet, ld, hostsFile, hostsRet, snapRet, rl>>


(***************************************************************************)
(* loadCommands(config, coreCommandsPath).  The loader's view of the        *)
(* configuration: execution.mode, database.driver, storage.driver, the     *)
(* groups switched off with commands.<group> = false, plugins.enabled and  *)
(* commands.custom.  The first element of a definition's `src` tells the   *)
(* source it came from.                                                    *)
(***************************************************************************)
CoreGroups == <<"core", "docker", "database", "system", "storage">>

PluginsSrc == 6
CustomSrc  == 7

\* the files under <coreCommandsPath>/<group>
BuiltinDir(group) ==
    CASE group = "core" ->
            Dir(TRUE, << Entry("js", Export("single", <<"leaf">>), <<>>),
                         Entry("js", Export("single", <<"leaf">>), <<>>) >>)
      [] group = "docker" ->
            Dir(TRUE, << Entry("js", Export("array", <<"leaf", "leaf">>), <<>>) >>)
      [] group = "database" ->
            Dir(TRUE, << Entry("js", Export("array", <<"leaf">>), <<>>) >>)
      [] group = "system" ->
            Dir(TRUE, << Entry("js", Export("single", <<"leaf">>), <<>>),
                         Entry("js", Export("array", <<"leaf">>), <<>>) >>)
      [] group = "storage" ->
            Dir(TRUE, << Entry("js", Export("array", <<"leaf", "group">>), <<>>) >>)

\* what a custom path resolves to: a command file, a directory, or nothing
CustomPaths == {"file", "dir", "gone"}

CustomTarget(p) ==
    CASE p = "file" -> Entry("js", Export("array", <<"group", "anon">>), <<>>)
      [] p = "dir"  -> Entry("dir", NoExport,
                             << Entry("js", Export("single", <<"hollow">>), <<>>),
                                Entry("js", Export("single", <<"leaf">>), <<>>) >>)
      [] p = "gone" -> Entry("gone", NoExport, <<>>)

\* the configurations loadCommands is called with: `disabled` holds the
\* groups switched off, `enabled` is plugins.enabled, `custom` is
\* commands.custom
LoaderConfigs ==
    [mode : {"docker", "native"}, database : {"unset", "none", "mysql"},
     storage : {"none", "s3"},
     disabled : {{}, {"database"}, {"docker", "system", "storage"}},
     enabled : {l \in NameLists : Range(l) \subseteq {"laravel", "static", "broken"}},
     custom : {<<>>, <<"file">>, <<"dir", "gone">>, <<"file", "dir">>}]

\* is the built-in group loaded under this configuration
GroupEnabled(cfg, group) ==
    CASE group = "core"     -> TRUE
      [] group = "docker"   -> "docker" \notin cfg.disabled /\ cfg.mode = "docker"
      [] group = "database" -> "database" \notin cfg.disabled /\ cfg.database # "none"
      [] group = "system"   -> "system" \notin cfg.disabled
      [] group = "storage"  -> "storage" \notin cfg.disabled /\ cfg.storage # "none"

\* loadCoreCommands from group i on
RECURSIVE loadCoreGroups(_, _, _)
loadCoreGroups(cfg, i, acc) ==
    IF i > Len(CoreGroups) THEN acc
    ELSE LET here == IF GroupEnabled(cfg, CoreGroups[i])
                     THEN loadCommandsFromDirectoryResult(BuiltinDir(CoreGroups[i]), <<i>>)
                     ELSE Loaded(<<>>, <<>>)
         IN  loadCoreGroups(cfg, i + 1,
                            Loaded(acc.commands \o here.commands,
                                   acc.warnings \o here.warnings))

\* loadCoreCommands(config, coreCommandsPath), as a result
loadCoreCommandsResult(cfg) == loadCoreGroups(cfg, 1, Loaded(<<>>, <<>>))

\* loadCustomCommands from path i on
RECURSIVE loadCustomPaths(_, _, _)
loadCustomPaths(cfg, i, acc) ==
    IF i > Len(cfg.custom) THEN acc
    ELSE LET t    == CustomTarget(cfg.custom[i])
             here == CASE t.type = "dir" ->
                            loadCommandsFromDirectoryResult(Dir(TRUE, t.entries),
                                                            <<CustomSrc, i>>)
                       [] t.type = "js" -> loadCommandModule(t.export, <<CustomSrc, i>>)
                       [] OTHER -> Loaded(<<>>, << <<CustomSrc, i>> >>)
         IN  loadCustomPaths(cfg, i + 1,
                             Loaded(acc.commands \o here.commands,
                                    acc.warnings \o here.warnings))

\* loadCustomCommands(config), as a result
loadCustomCommandsResult(cfg) == loadCustomPaths(cfg, 1, Loaded(<<>>, <<>>))


\* what getCommands(name) hands to the loader for a loaded plugin: the kinds
\* of the definitions in the plugin's command array
PluginCommands(name) ==
    CASE name = "laravel" -> <<"leaf", "group">>
      [] name = "static"  -> <<"hollow", "leaf", "both">>
      [] OTHER            -> <<>>

\* the filter of loadPluginCommands: !cmd.name || !cmd.action is dropped
isValidPluginCommand(d) == DefName(d) /\ DefAction(d)

\* pluginManager.loadPlugins(enabledPlugins), run to its end: the plugins map
\* and the counters afterwards
RECURSIVE loadEach(_, _)
loadEach(st, names) ==
    IF names = <<>> THEN st
    ELSE LET name == Head(names)
             tried == [st.stats EXCEPT ![name].attempts = @ + 1]
         IN  IF name \in Range(st.plugins) THEN loadEach(st, Tail(names))
             ELSE IF ~PluginModule(name).exists
             THEN loadEach([st EXCEPT !.stats = [tried EXCEPT ![name].failures = @ + 1]],
                           Tail(names))
             ELSE IF PluginModule(name).importOk /\ validatePlugin(name)
             THEN loadEach([plugins |-> PluginsSet(st.plugins, name),
                            stats |-> LoadedStats(tried, name)], Tail(names))
             ELSE loadEach([st EXCEPT !.stats = FailedStats(tried, name)], Tail(names))

\* the loop of loadPluginCommands over enabledPlugins from position i on
RECURSIVE loadPluginLoop(_, _, _, _)
loadPluginLoop(enabled, plugins, i, acc) ==
    IF i > Len(enabled) THEN acc
    ELSE LET name    == enabled[i]
             asked   == [acc.stats EXCEPT ![name].requests = @ + 1]
             called  == [asked EXCEPT ![name].providerCalls =
                            IF PluginModule(name).commands = "function" THEN @ + 1 ELSE @]
             offered == Offered(Export("array", PluginCommands(name)), <<PluginsSrc, i>>)
             invalid == SelectSeq(offered, LAMBDA d : ~isValidPluginCommand(d))
         IN  IF name \notin Range(plugins)
             THEN loadPluginLoop(enabled, plugins, i + 1,
                     [acc EXCEPT !.stats = asked,
                                 !.warnings = Append(@, <<PluginsSrc, i>>)])
             ELSE loadPluginLoop(enabled, plugins, i + 1,
                     [commands |-> acc.commands \o SelectSeq(offered, isValidPluginCommand),
                      warnings |-> acc.warnings \o
                                   [j \in 1..Len(invalid) |-> invalid[j].src],
                      stats |-> called])

\* loadPluginCommands(config), as a result: the definitions, the warnings, and
\* the plugin manager's map and counters afterwards
loadPluginCommandsResult(cfg) ==
    LET st  == loadEach([plugins |-> pmPlugins, stats |-> pmStats], cfg.enabled)
        res == loadPluginLoop(cfg.enabled, st.plugins, 1,
                              [commands |-> <<>>, warnings |-> <<>>, stats |-> st.stats])
    IN  [commands |-> res.commands, warnings |-> res.warnings,
         plugins |-> st.plugins, stats |-> res.stats]


\* `commands = stage` in the place of commands.push(...stage)
stageAssign(commands, stage) == stage

\* commands.push(...coreCommands) and its two siblings in loadCommands
stagePush(commands, stage) == commands \o stage

\* a command registered with Commander: its definition, whether an action
\* handler was bound, and the commands registered under it
Node(def, action, children) == [def |-> def, action |-> action, children |-> children]

\* registerSingleCommand with the action handler bound to every command
registerSingleCommandAlways(d) ==
    Node(d, TRUE, [i \in 1..Len(DefSubcommands(d)) |->
                      Node(DefSubcommands(d)[i], TRUE, <<>>)])

\* registerSingleCommand(parentCommand, commandDef, context, pluginManager);
\* subcommands in this model are leaves
registerSingleCommand(d) ==
    IF DefSubcommandsIsArray(d)
    THEN Node(d, FALSE, [i \in 1..Len(DefSubcommands(d)) |->
                            Node(DefSubcommands(d)[i], TRUE, <<>>)])
    ELSE Node(d, TRUE, <<>>)

\* what Commander does when the command's name alone is selected: run the
\* bound handler, show the help of a command that has subcommands, or return
\* without doing anything
Selected(node) ==
    IF node.action THEN "action"
    ELSE IF node.children # <<>> THEN "help" ELSE "nothing"

NoLd == [pc |-> "idle",
         cfg |-> [mode |-> "docker", database |-> "none", storage |-> "none",
                  disabled |-> {}, enabled |-> <<>>, custom |-> <<>>],
         commands |-> <<>>, warnings |-> <<>>, program |-> <<>>,
         selected |-> 0, outcome |-> "none"]

\* loadCommands(config, coreCommandsPath): const commands = []
loadCommands(cfg) ==
    /\ ld.pc = "idle"
    /\ cfg \in LoaderConfigs
    /\ ld' = [ld EXCEPT !.pc = "core", !.cfg = cfg]
    /\ UNCHANGED <<lateVars, ctxVars, pmVars, execRet, dirRet, hostsFile, hostsRet, snapRet, rl>>

\* coreCommands = await loadCoreCommands(...); commands.push(...coreCommands)
loadCoreCommands ==
    LET res == loadCoreCommandsResult(ld.cfg)
    IN  /\ ld.pc = "core"
        /\ ld' = [ld EXCEPT !.pc = "plugins",
                            !.commands = stagePush(@, res.commands),
                            !.warnings = @ \o res.warnings]
        /\ UNCHANGED <<lateVars, ctxVars, pmVars, execRet, dirRet, hostsFile, hostsRet,
                       snapRet, rl>>

\* pluginCommands = await loadPluginCommands(config); commands.push(...)
loadPluginCommands ==
    LET res == loadPluginCommandsResult(ld.cfg)
    IN  /\ ld.pc = "plugins"
        /\ pmCall.op = "idle"
        /\ ld' = [ld EXCEPT !.pc = "custom",
                            !.commands = stagePush(@, res.commands),
                            !.warnings = @ \o res.warnings]
        /\ pmPlugins' = res.plugins
        /\ pmStats' = res.stats
        /\ UNCHANGED <<lateVars, ctxVars, pmCall, pmRet, pmCalls, cmd, execRet, dirRet,
                       hostsFile, hostsRet, snapRet, rl>>

\* customCommands = await loadCustomCommands(config); commands.push(...);
\* return commands
loadCustomCommands ==
    LET res == loadCustomCommandsResult(ld.cfg)
    IN  /\ ld.pc = "custom"
        /\ ld' = [ld EXCEPT !.pc = "loaded",
                            !.commands = stagePush(@, res.commands),
                            !.warnings = @ \o res.warnings]
        /\ UNCHANGED <<lateVars, ctxVars, pmVars, execRet, dirRet, hostsFile, hostsRet,
                       snapRet, rl>>

\* registerCommands(program, commands, context)
registerCommands ==
    /\ ld.pc = "loaded"
    /\ ld' = [ld EXCEPT !.pc = "registered",
                        !.program = [i \in 1..Len(ld.commands) |->
                                        registerSingleCommand(ld.commands[i])]]
    /\ UNCHANGED <<lateVars, ctxVars, pmVars, execRet, dirRet, hostsFile, hostsRet, snapRet, rl>>

\* the user types the name of the i-th registered command and nothing else
select(i) ==
    /\ ld.pc = "registered"
    /\ i \in 1..Len(ld.program)
    /\ ld' = [ld EXCEPT !.selected = i, !.outcome = Selected(ld.program[i])]
    /\ UNCHANGED <<lateVars, ctxVars, pmVars, execRet, dirRet, hostsFile, hostsRet, snapRet, rl>>


(***************************************************************************)
(* EtcHostsProvider.  The hosts file is a sequence of lines: an entry line *)
(* `ip name [alias...]`, the two marker comments of the managed section,   *)
(* or another comment.  Blank lines are left out: no operation reads them. *)
(***************************************************************************)
Hostnames == {"app.test", "db.test"}
IPs       == {"127.0.0.1", "10.0.0.2"}

EntryLine(ip, names) == [kind |-> "entry", ip |-> ip, names |-> names]
StartMarker == [kind |-> "start", ip |-> "", names |-> <<>>]
EndMarker   == [kind |-> "end", ip |-> "", names |-> <<>>]
Comment     == [kind |-> "comment", ip |-> "", names |-> <<>>]

\* the hosts files the provider is started on
HostsFiles ==
    { << Comment, EntryLine("127.0.0.1", <<"localhost">>) >>,
      << EntryLine("127.0.0.1", <<"localhost", "app.test">>) >>,
      << EntryLine("127.0.0.1", <<"localhost">>), StartMarker,
         EntryLine("10.0.0.2", <<"db.test">>), EndMarker, Comment >>,
      << EntryLine("10.0.0.2", <<"app.test">>), StartMarker, EndMarker >> }

\* parseHostsFile(content): the (ip, hostname) pairs of the entry lines
parseHostsFile(content) ==
    UNION {{[ip |-> content[i].ip, hostname |-> content[i].names[j]] :
               j \in 1..Len(content[i].names)} :
           i \in {k \in 1..Len(content) : content[k].kind = "entry"}}

\* content.indexOf(marker): the first line of that kind, 0 when there is none
IndexOf(content, kind) ==
    IF \E i \in 1..Len(content) : content[i].kind = kind
    THEN CHOOSE i \in 1..Len(content) :
            /\ content[i].kind = kind
            /\ \A j \in 1..(i - 1) : content[j].kind # kind
    ELSE 0

\* getManagedSection(content); `found` is FALSE for null
getManagedSection(content) ==
    LET startIndex == IndexOf(content, "start")
        endIndex   == IndexOf(content, "end")
    IN  IF startIndex = 0 \/ endIndex = 0
        THEN [found |-> FALSE, before |-> <<>>, managed |-> <<>>, after |-> <<>>]
        ELSE [found |-> TRUE,
              before |-> SubSeq(content, 1, startIndex - 1),
              managed |-> SubSeq(content, startIndex, endIndex),
              after |-> SubSeq(content, endIndex + 1, Len(content))]

\* buildManagedSection(entries, ip)
buildManagedSection(entries, ip) ==
    <<StartMarker>> \o [i \in 1..Len(entries) |-> EntryLine(ip, <<entries[i]>>)]
                    \o <<EndMarker>>

\* [...new Set(list)]: the first occurrence of every element, in order
RECURSIVE Dedupe(_)
Dedupe(list) ==
    IF list = <<>> THEN <<>>
    ELSE LET front == Dedupe(SubSeq(list, 1, Len(list) - 1))
             last  == list[Len(list)]
         IN  IF last \in Range(front) THEN front ELSE Append(front, last)

\* the hostnames of the managed section: parts[1] of every entry line
existingManaged(managed) ==
    LET lines == SelectSeq(managed, LAMBDA l : l.kind = "entry")
    IN  [i \in 1..Len(lines) |-> lines[i].names[1]]

\* the new file content addEntries builds for the hostnames in `added`
newContent(content, added, targetIP) ==
    LET sections == getManagedSection(content)
    IN  IF sections.found
        THEN sections.before
             \o buildManagedSection(Dedupe(existingManaged(sections.managed) \o added),
                                    targetIP)
             \o sections.after
        ELSE content \o buildManagedSection(added, targetIP)


\* writeHostsFile(content): the file afterwards.  `env` is what the process
\* can do to the hosts file: write it directly, or not, and then the exit
\* code of `sudo cp <temp file> <hosts file>`.  The result of
\* executor.run('sudo', ['cp', ...]) is not looked at.
writeHostsFile(file, content, env) ==
    IF env.writable THEN content
    ELSE IF env.exit = 0 THEN content ELSE file

NoHostsRet == [n |-> 0, hosts |-> <<>>, ip |-> "", added |-> <<>>, skipped |-> <<>>,
               wrote |-> FALSE, spawned |-> 0, exit |-> 0]

\* addEntries(hosts, ip)
addEntries(hosts, ip, env) ==
    LET existingEntries == parseHostsFile(hostsFile)
        exists(h) == [ip |-> ip, hostname |-> h] \in existingEntries
        added   == SelectSeq(hosts, LAMBDA h : ~exists(h))
        skipped == SelectSeq(hosts, exists)
    IN  /\ hostsRet.n < MaxHostsCalls
        /\ IF added = <<>>
           THEN /\ UNCHANGED hostsFile
                /\ hostsRet' = [n |-> hostsRet.n + 1, hosts |-> hosts, ip |-> ip,
                                added |-> added, skipped |-> skipped,
                                wrote |-> FALSE, spawned |-> 0, exit |-> 0]
           ELSE /\ hostsFile' = writeHostsFile(hostsFile,
                                               newContent(hostsFile, added, ip), env)
                /\ hostsRet' = [n |-> hostsRet.n + 1, hosts |-> hosts, ip |-> ip,
                                added |-> added, skipped |-> skipped, wrote |-> TRUE,
                                spawned |-> IF env.writable THEN 0 ELSE 1,
                                exit |-> IF env.writable THEN 0 ELSE env.exit]
        /\ UNCHANGED <<lateVars, ctxVars, pmVars, execRet, dirRet, ld, snapRet, rl>>


(***************************************************************************)
(* Snapshots: BaseDatabaseProvider.listSnapshots and MySQLProvider.rollback *)
(***************************************************************************)
\* an entry of the snapshot directory, as readdirSync + statSync show it:
\* a snapshot file with its modification time, or a subdirectory
SnapEntries ==
    [name : {"a.sql", "m.sql", "z.sql"}, created : 1 .. 3, isFile : {TRUE}] \cup
    {[name |-> "archive", created |-> 3, isFile |-> FALSE]}

NoSnapDir == [exists |-> FALSE, entries |-> <<>>]

DistinctNames(list) ==
    \A i, j \in 1 .. Len(list) : list[i].name = list[j].name => i = j

\* the snapshot directory: absent, or its entries in readdir order
SnapDirs ==
    {NoSnapDir} \cup
    {[exists |-> TRUE, entries |-> l] :
        l \in {m \in ListsUpTo(SnapEntries, MaxSnaps) : DistinctNames(m)}}

\* a comparison that leaves the list in readdir order
readdirOrder(a, b) == TRUE

\* (a, b) => b.created - a.created is not positive: a stays before b
newerFirst(a, b) == a.created >= b.created

\* Array.prototype.sort with that comparator (stable)
RECURSIVE sortInsert(_, _)
sortInsert(sorted, x) ==
    IF sorted = <<>> THEN <<x>>
    ELSE IF newerFirst(sorted[Len(sorted)], x) THEN Append(sorted, x)
    ELSE Append(sortInsert(SubSeq(sorted, 1, Len(sorted) - 1), x), sorted[Len(sorted)])

RECURSIVE sortSnapshots(_, _, _)
sortSnapshots(list, i, acc) ==
    IF i > Len(list) THEN acc
    ELSE sortSnapshots(list, i + 1, sortInsert(acc, list[i]))

listSnapshots(dir) ==
    IF ~dir.exists THEN <<>>
    ELSE sortSnapshots(SelectSeq(dir.entries, LAMBDA e : e.isFile), 1, <<>>)

\* pc, shown and answer belong to the db:rollback command: where it stands,
\* the snapshot name its prompt shows, and the answer to the prompt
NoSnapRet == [called |-> FALSE, dir |-> NoSnapDir, outcome |-> "", err |-> "",
              source |-> "", spawned |-> 0, pc |-> "idle", shown |-> "",
              answer |-> FALSE]

\* MySQLProvider.rollback(), with the restore it delegates to
rollback(dir, class, env, dbName) ==
    LET snapshots == listSnapshots(dir)
        inp == [dbName |-> dbName, files |-> Len(snapshots)]
        res == IF Len(snapshots) = 0
               THEN OpResult("throw", 0, "No snapshots available")
               ELSE MySQLrestore(class, env, inp, TRUE)
        \* the path rollback hands to restore
        restoring == Len(snapshots) > 0
    IN  /\ ~snapRet.called
        /\ snapRet' = [called |-> TRUE, dir |-> dir, outcome |-> res.outcome,
                       err |-> res.err,
                       source |-> IF restoring THEN snapshots[1].name ELSE "",
                       spawned |-> res.spawned, pc |-> snapRet.pc,
                       shown |-> snapRet.shown, answer |-> snapRet.answer]
        /\ UNCHANGED <<lateVars, ctxVars, pmVars, execRet, dirRet, ld, hostsFile, hostsRet, rl>>

\* db:rollback, up to its confirmation prompt: the provider is there, the
\* snapshots are listed and the newest one is named in the prompt
rollbackPrompt(dir) ==
    LET snapshots == listSnapshots(dir)
    IN  /\ snapRet.pc = "idle"
        /\ ~snapRet.called
        /\ snapRet' = [snapRet EXCEPT
              !.dir = dir,
              !.pc = IF Len(snapshots) = 0 THEN "done" ELSE "prompt",
              !.outcome = IF Len(snapshots) = 0 THEN "return" ELSE "",
              !.err = IF Len(snapshots) = 0 THEN "No snapshots found" ELSE "",
              !.shown = IF Len(snapshots) = 0 THEN "" ELSE snapshots[1].name]
        /\ UNCHANGED <<lateVars, ctxVars, pmVars, execRet, dirRet, ld, hostsFile, hostsRet, rl>>

\* the newest modification time in the directory
RECURSIVE newest(_, _)
newest(entries, i) ==
    IF i > Len(entries) THEN 0
    ELSE LET rest == newest(entries, i + 1)
         IN  IF entries[i].created > rest THEN entries[i].created ELSE rest

\* db:snapshot run by another process while the prompt is open: one more
\* file in the snapshot directory, written now
snapshot(name) ==
    /\ snapRet.pc = "prompt"
    /\ \A i \in 1 .. Len(snapRet.dir.entries) : snapRet.dir.entries[i].name # name
    /\ snapRet' = [snapRet EXCEPT
          !.dir.entries = Append(@, [name |-> name,
                                     created |-> newest(@, 1) + 1,
                                     isFile |-> TRUE])]
    /\ UNCHANGED <<lateVars, ctxVars, pmVars, execRet, dirRet, ld, hostsFile, hostsRet, rl>>

\* db:rollback from the answer to its prompt: cancelled, or
\* `await provider.rollback()`, which lists the directory again
rollbackAnswer(confirmed, class, env, dbName) ==
    LET snapshots == listSnapshots(snapRet.dir)
        inp == [dbName |-> dbName, files |-> Len(snapshots)]
        res == MySQLrollback(class, env, inp)
    IN  /\ snapRet.pc = "prompt"
        /\ snapRet' = IF ~confirmed
              THEN [snapRet EXCEPT !.pc = "done", !.outcome = "return",
                                   !.err = "Operation cancelled."]
              ELSE [snapRet EXCEPT
                      !.pc = "done", !.called = TRUE, !.answer = TRUE,
                      !.outcome = res.outcome, !.err = res.err,
                      !.source = snapshots[1].name,
                      !.spawned = res.spawned]
        /\ UNCHANGED <<lateVars, ctxVars, pmVars, execRet, dirRet, ld, hostsFile, hostsRet, rl>>


(***************************************************************************)
(* commands/docker/core.js: reload                                         *)
(***************************************************************************)
Services == {"app", "db", "worker"}

\* config.containers: service name -> container name, "" where not mapped
ContainerName(service) ==
    IF service = "app" THEN "proj_app"
    ELSE IF service = "db" THEN "proj_db"
    ELSE "proj_worker"

ReloadConfigs ==
    [containers : {[s \in Services |-> IF s \in mapped THEN ContainerName(s) ELSE ""] :
                      mapped \in {{}, {"app"}, {"app", "db"}}},
     reloadable : ListsUpTo(Services, MaxReloadable)]

\* every mapped container, in place of the reloadable ones
getAllContainers(cfg) ==
    LET all == <<"app", "db", "worker">>
    IN  SelectSeq([i \in 1 .. 3 |-> cfg.containers[all[i]]], LAMBDA c : c # "")

\* reloadable.map(service => containers[service] || service).filter(Boolean)
getReloadableContainers(cfg) ==
    [i \in 1 .. Len(cfg.reloadable) |->
        IF cfg.containers[cfg.reloadable[i]] # ""
        THEN cfg.containers[cfg.reloadable[i]]
        ELSE cfg.reloadable[i]]

NoRl == [pc |-> "idle", cfg |-> [containers |-> [s \in Services |-> ""],
                                 reloadable |-> <<>>],
         restarts |-> <<>>, pending |-> {}, results |-> <<>>, report |-> "",
         printed |-> <<>>, reportArgs |-> <<>>]

\* reload: entry up to Promise.all.  The map callback runs to its first await
\* for each container in turn, so every `docker restart` is spawned here.
reload(cfg) ==
    LET containersToReload == getReloadableContainers(cfg)
    IN  /\ rl.pc = "idle"
        /\ IF Len(containersToReload) = 0
           THEN rl' = [rl EXCEPT !.pc = "done", !.cfg = cfg,
                                 !.report = "No reloadable containers configured"]
           ELSE rl' = [pc |-> "awaiting", cfg |-> cfg,
                       restarts |-> containersToReload,
                       pending |-> 1 .. Len(containersToReload),
                       results |-> [i \in 1 .. Len(containersToReload) |-> FALSE],
                       report |-> "",
                       printed |-> [i \in 1 .. Len(containersToReload) |-> "Restarting"],
                       reportArgs |-> <<>>]
        /\ UNCHANGED <<lateVars, ctxVars, pmVars, execRet, dirRet, ld, hostsFile, hostsRet,
                       snapRet>>

\* one `docker restart` settles: resolved -> the "restarted" line and true,
\* rejected -> the "Failed to restart" line and false
restartSettles(i, ok) ==
    /\ rl.pc = "awaiting"
    /\ i \in rl.pending
    /\ rl' = [rl EXCEPT !.pending = @ \ {i}, !.results[i] = ok,
                        !.printed[i] = IF ok THEN "restarted" ELSE "Failed to restart"]
    /\ UNCHANGED <<lateVars, ctxVars, pmVars, execRet, dirRet, ld, hostsFile, hostsRet, snapRet>>

\* a combinator that resumes as soon as the promises exist
promiseNone(pending) == TRUE

\* await Promise.all(promises): every promise has settled
promiseAll(pending) == pending = {}

\* after Promise.all: the report.  Neither message interpolates a value
\* (reportArgs stays empty).
reloadReport ==
    LET failed == Cardinality({i \in 1 .. Len(rl.results) : ~rl.results[i]})
    IN  /\ rl.pc = "awaiting"
        /\ promiseAll(rl.pending)
        /\ rl' = [rl EXCEPT !.pc = "done",
                            !.report = IF failed = 0
                                       THEN "Application containers reloaded"
                                       ELSE "Some containers failed to restart"]
        /\ UNCHANGED <<lateVars, ctxVars, pmVars, execRet, dirRet, ld, hostsFile, hostsRet,
                       snapRet>>

(***************************************************************************)
(* Specifications.                                                         *)
(***************************************************************************)
(***************************************************************************)
(* commands/docker/core.js: rebuild, over lib/docker.js compose            *)
(***************************************************************************)
\* the compose subcommands of a rebuild, in the order bad for a rebuild
RebuildStepsBuildFirst == <<"build", "down", "up">>

\* the compose subcommands the action awaits one after the other
RebuildSteps == <<"down", "build", "up">>

\* options.noCache and the variadic service names
RebuildInputs ==
    [noCache : BOOLEAN, services : ListsUpTo({"app", "db"}, MaxNames)]

\* the arguments handed to compose for one step
composeArgs(step, inp) ==
    IF step = "down" THEN <<"down">>
    ELSE IF step = "build"
    THEN <<"build">> \o (IF inp.noCache THEN <<"--no-cache">> ELSE <<>>) \o inp.services
    ELSE <<"up", "-d">>

\* what compose finds before it spawns `docker compose`: checkDocker and the
\* compose file; "" when both are fine
ComposeChecks == {"", "Docker is not running", "Compose file not found"}

NoRb == [pc |-> "idle", step |-> 0, inp |-> [noCache |-> FALSE, services |-> <<>>],
         log |-> <<>>, messages |-> <<>>, outcome |-> ""]

\* the action from step i on, up to its next await on a spawned subprocess:
\* compose(...) throws before spawning, or spawns and is awaited
composeCall(r, i, check) ==
    LET step == RebuildSteps[i]
        said == IF step = "down" THEN "Stopping containers..."
                ELSE IF step = "build" THEN "Building containers..."
                ELSE "Starting containers..."
    IN  IF check # ""
        THEN [r EXCEPT !.pc = "done", !.step = i,
                       !.messages = @ \o <<said, "Rebuild failed">>,
                       !.outcome = "throw"]
        ELSE [r EXCEPT !.pc = "awaiting", !.step = i,
                       !.messages = Append(@, said),
                       !.log = Append(@, [ev |-> "spawn", step |-> step,
                                          args |-> composeArgs(step, r.inp)])]

\* rebuild: entry up to the first await
rebuild(inp, check) ==
    /\ rb.pc = "idle"
    /\ rb' = composeCall([NoRb EXCEPT !.inp = inp,
                                      !.messages = <<"Rebuilding containers...">>],
                         1, check)
    /\ UNCHANGED <<baseVars, help, s3, io>>

\* the awaited `docker compose` subprocess exits; the action goes on to the
\* next step, to its success message, or into its catch block
composeExits(code, check) ==
    LET step == RebuildSteps[rb.step]
        exited == [rb EXCEPT !.log = Append(@, [ev |-> "exit", step |-> step,
                                               args |-> composeArgs(step, rb.inp)])]
    IN  /\ rb.pc = "awaiting"
        /\ rb' = IF code # 0
                 THEN [exited EXCEPT !.pc = "done",
                                     !.messages = Append(@, "Rebuild failed"),
                                     !.outcome = "throw"]
                 ELSE IF rb.step = Len(RebuildSteps)
                 THEN [exited EXCEPT !.pc = "done",
                                     !.messages = Append(@, "Containers rebuilt and started"),
                                     !.outcome = "return"]
                 ELSE composeCall(exited, rb.step + 1, check)
        /\ UNCHANGED <<baseVars, help, s3, io>>

(***************************************************************************)
(* buildCategorizedHelp: the order of the categories.  A string is the     *)
(* sequence of its characters.                                             *)
(***************************************************************************)
\* const order = ['Setup', 'Container', 'Laravel', 'Database', 'Frontend',
\*                'System', 'Other']
order ==
    <<<<"S", "e", "t", "u", "p">>,
      <<"C", "o", "n", "t", "a", "i", "n", "e", "r">>,
      <<"L", "a", "r", "a", "v", "e", "l">>,
      <<"D", "a", "t", "a", "b", "a", "s", "e">>,
      <<"F", "r", "o", "n", "t", "e", "n", "d">>,
      <<"S", "y", "s", "t", "e", "m">>,
      <<"O", "t", "h", "e", "r">>>>

\* category names of commands; 'Other' is also what a command without a
\* category is filed under
Categories ==
    {<<"S", "e", "t", "u", "p">>,
     <<"C", "o", "n", "t", "a", "i", "n", "e", "r", " ", "O", "p", "s">>,
     <<"D", "a", "t", "a", "b", "a", "s", "e">>,
     <<"M", "y", " ", "S", "e", "t", "u", "p">>,
     <<"S", "y", "s", "t", "e", "m">>,
     <<"O", "t", "h", "e", "r">>,
     <<"A", "p", "i">>,
     <<"D", "B">>,
     <<"Z", "e", "d">>}

\* String.prototype.includes
includes(a, o) ==
    \E i \in 1 .. Len(a) - Len(o) + 1 : SubSeq(a, i, i + Len(o) - 1) = o

\* order.findIndex(o => a.includes(o)), counted from 1; 0 stands for -1
findIndex(a) ==
    IF \E i \in 1 .. Len(order) : includes(a, order[i])
    THEN CHOOSE i \in 1 .. Len(order) :
            /\ includes(a, order[i])
            /\ \A j \in 1 .. i - 1 : ~includes(a, order[j])
    ELSE 0

\* the collation rank of a character: letters in alphabetical order, a capital
\* with its small letter, the space before all letters
Alphabet ==
    <<{" "}, {"a", "A"}, {"b", "B"}, {"c", "C"}, {"d", "D"}, {"e", "E"},
      {"f", "F"}, {"g", "G"}, {"h", "H"}, {"i", "I"}, {"j", "J"}, {"k", "K"},
      {"l", "L"}, {"m", "M"}, {"n", "N"}, {"o", "O"}, {"p", "P"}, {"q", "Q"},
      {"r", "R"}, {"s", "S"}, {"t", "T"}, {"u", "U"}, {"v", "V"}, {"w", "W"},
      {"x", "X"}, {"y", "Y"}, {"z", "Z"}>>

rank(c) == CHOOSE i \in 1 .. Len(Alphabet) : c \in Alphabet[i]

\* a.localeCompare(b) for names that differ in more than the case of their
\* letters: negative, 0 or positive
RECURSIVE localeCompare(_, _)
localeCompare(a, b) ==
    IF a = <<>> THEN (IF b = <<>> THEN 0 ELSE -1)
    ELSE IF b = <<>> THEN 1
    ELSE IF rank(Head(a)) # rank(Head(b)) THEN rank(Head(a)) - rank(Head(b))
    ELSE localeCompare(Tail(a), Tail(b))

\* a comparator that leaves the keys in insertion order
compareInsertion(a, b) == 0

\* the comparator of Object.keys(categories).sort(...)
compareCategories(a, b) ==
    LET aIndex == findIndex(a)
        bIndex == findIndex(b)
    IN  IF aIndex # 0 /\ bIndex # 0 THEN aIndex - bIndex
        ELSE IF aIndex # 0 THEN -1
        ELSE IF bIndex # 0 THEN 1
        ELSE localeCompare(a, b)

\* Array.prototype.sort with that comparator (stable)
RECURSIVE insertCategory(_, _)
insertCategory(sorted, x) ==
    IF sorted = <<>> THEN <<x>>
    ELSE IF compareCategories(sorted[Len(sorted)], x) <= 0 THEN Append(sorted, x)
    ELSE Append(insertCategory(SubSeq(sorted, 1, Len(sorted) - 1), x),
                sorted[Len(sorted)])

RECURSIVE sortCategories(_, _, _)
sortCategories(list, i, acc) ==
    IF i > Len(list) THEN acc
    ELSE sortCategories(list, i + 1, insertCategory(acc, list[i]))

\* Object.keys(categories): each category once, in the order of its first
\* command
RECURSIVE categoryKeys(_, _, _)
categoryKeys(commands, i, acc) ==
    IF i > Len(commands) THEN acc
    ELSE categoryKeys(commands, i + 1,
                      IF \E k \in 1 .. Len(acc) : acc[k] = commands[i] THEN acc
                      ELSE Append(acc, commands[i]))

NoHelp == [called |-> FALSE, commands |-> <<>>, sortedCategories |-> <<>>]

\* buildCategorizedHelp(commands), each command given by its category: the
\* headings of the help text, top to bottom
buildCategorizedHelp(commands) ==
    /\ ~help.called
    /\ help' = [called |-> TRUE, commands |-> commands,
                sortedCategories |->
                    sortCategories(categoryKeys(commands, 1, <<>>), 1, <<>>)]
    /\ UNCHANGED <<baseVars, rb, s3, io>>

(***************************************************************************)
(* S3Provider.detectCLITool                                                *)
(***************************************************************************)
\* config.cliTool
CliTools == {"auto", "mc", "aws"}

\* a probe that was not made
NoProbe == ExecResult("none", "none", 0, "", 0, FALSE)

NoS3 == [called |-> FALSE, cliTool |-> "auto", class |-> "none",
         env |-> NoExec.env, mc |-> NoProbe, aws |-> NoProbe, outcome |-> "", value |-> "", err |-> ""]

\* await this.executor.run(tool, ['--version'], { stdio: 'pipe' }) where the
\* tool's subprocess ends as `exit` says
probe(class, env, exit) == ExecutorCall(class, "run", [env EXCEPT !.exit = exit])

\* detectCLITool(): the configured tool, or the first of mc and aws whose
\* probe does not throw
detectCLITool(cliTool, class, env, mcExit, awsExit) ==
    LET mc  == probe(class, env, mcExit)
        aws == probe(class, env, awsExit)
        r   == [NoS3 EXCEPT !.called = TRUE, !.cliTool = cliTool, !.class = class,
                            !.env = env]
    IN  /\ ~s3.called
        /\ s3' = IF cliTool # "auto"
                 THEN [r EXCEPT !.outcome = "return", !.value = cliTool]
                 ELSE IF mc.outcome # "raise"
                 THEN [r EXCEPT !.mc = mc, !.outcome = "return", !.value = "mc"]
                 ELSE IF aws.outcome # "raise"
                 THEN [r EXCEPT !.mc = mc, !.aws = aws,
                                !.outcome = "return", !.value = "aws"]
                 ELSE [r EXCEPT !.mc = mc, !.aws = aws, !.outcome = "throw",
                                !.err = "No S3 CLI tool found"]
        /\ UNCHANGED <<baseVars, rb, help, io>>

(***************************************************************************)
(* The I/O of provider operations: FilesystemProvider upload, download and *)
(* delete, EtcHostsProvider.writeHostsFile, MySQLProvider.connect.         *)
(***************************************************************************)
\* one change made to a resource: `via` is "executor" for a call of
\* this.executor and "fs" for a call of the fs module by the provider itself;
\* `on` is what is changed: "storage", "local" (the caller's file), "hosts",
\* "temp" (a scratch file) or "database"
Effect(via, does, on) == [via |-> via, does |-> does, on |-> on]

\* ensureLocalDirectory(dir)
ensureLocalDirectory(dirExists, on) ==
    IF dirExists THEN <<>> ELSE <<Effect("fs", "mkdirSync", on)>>

IoResult(effects, outcome, err) == [effects |-> effects, outcome |-> outcome, err |-> err]

\* FilesystemProvider.upload(localPath, remotePath)
FilesystemUpload(inp) ==
    IF ~inp.exists
    THEN IoResult(ensureLocalDirectory(inp.dirExists, "storage"), "throw", "ENOENT")
    ELSE IoResult(ensureLocalDirectory(inp.dirExists, "storage")
                      \o <<Effect("fs", "copyFileSync", "storage")>>, "return", "")

\* FilesystemProvider.download(remotePath, localPath)
FilesystemDownload(inp) ==
    IF ~inp.exists THEN IoResult(<<>>, "throw", "File not found")
    ELSE IoResult(ensureLocalDirectory(inp.dirExists, "local")
                      \o <<Effect("fs", "copyFileSync", "local")>>, "return", "")

\* FilesystemProvider.delete(remotePath, options)
FilesystemDelete(inp) ==
    IF ~inp.exists THEN IoResult(<<>>, "return", "")
    ELSE IF inp.isDirectory
    THEN IF inp.recursive
         THEN IoResult(<<Effect("fs", "rmSync", "storage")>>, "return", "")
         ELSE IF ~inp.empty
         THEN IoResult(<<>>, "throw", "ENOTEMPTY")
         ELSE IoResult(<<Effect("fs", "rmdirSync", "storage")>>, "return", "")
    ELSE IoResult(<<Effect("fs", "unlinkSync", "storage")>>, "return", "")

\* the inputs of the three: the source exists; the directory to write into
\* exists; the path to delete is a directory, and an empty one;
\* options.recursive
StorageInputs ==
    [exists : BOOLEAN, dirExists : BOOLEAN, isDirectory : BOOLEAN,
     empty : BOOLEAN, recursive : BOOLEAN]

\* EtcHostsProvider.writeHostsFile(content): the hosts file is writable or
\* not, the platform is win32 or not, `sudo cp` exits with env.exit
EtcHostsWrite(env) ==
    IF env.writable
    THEN IoResult(<<Effect("fs", "writeFileSync", "hosts")>>, "return", "")
    ELSE IF env.win32 THEN IoResult(<<>>, "throw", "Cannot write to hosts file")
    ELSE IoResult(<<Effect("fs", "writeFileSync", "temp"),
                    Effect("executor", "sudo cp", "hosts"),
                    Effect("fs", "unlinkSync", "temp")>>, "return", "")

\* MySQLProvider.connect(): the mysql client, through executor.runInService
MySQLconnectIo(class, env) ==
    LET r == MySQLconnect(class, env)
    IN  IoResult(IF r.spawned > 0 THEN <<Effect("executor", "mysql", "database")>>
                 ELSE <<>>, r.outcome, r.err)

NoIo == [n |-> 0, provider |-> "none", op |-> "none", effects |-> <<>>,
         outcome |-> "", err |-> ""]

\* the record of one more provider operation run to its end; effects is the
\* I/O of all operations so far
IoAfter(provider, op, r) ==
    [n |-> io.n + 1, provider |-> provider, op |-> op,
     effects |-> io.effects \o r.effects, outcome |-> r.outcome, err |-> r.err]

upload(inp) ==
    /\ io.n < MaxIoCalls
    /\ io' = IoAfter("FilesystemProvider", "upload", FilesystemUpload(inp))
    /\ UNCHANGED <<baseVars, rb, help, s3>>

download(inp) ==
    /\ io.n < MaxIoCalls
    /\ io' = IoAfter("FilesystemProvider", "download", FilesystemDownload(inp))
    /\ UNCHANGED <<baseVars, rb, help, s3>>

delete(inp) ==
    /\ io.n < MaxIoCalls
    /\ io' = IoAfter("FilesystemProvider", "delete", FilesystemDelete(inp))
    /\ UNCHANGED <<baseVars, rb, help, s3>>

hostsWrite(env) ==
    /\ io.n < MaxIoCalls
    /\ io' = IoAfter("EtcHostsProvider", "writeHostsFile", EtcHostsWrite(env))
    /\ UNCHANGED <<baseVars, rb, help, s3>>

connect(class, env) ==
    /\ io.n < MaxIoCalls
    /\ io' = IoAfter("MySQLProvider", "connect", MySQLconnectIo(class, env))
    /\ UNCHANGED <<baseVars, rb, help, s3>>

InitWithFile(ids, files) ==
    /\ ctxConfig \in ids
    /\ hostsFile \in files
    /\ ctxExecutor = 0
    /\ ctxProviders = [t \in ProviderTypes |-> Undefined]
    /\ providersInitialized = FALSE
    /\ heap = <<>>
    /\ regProviders = <<>>
    /\ regInstances = << >>
    /\ ret = NoRet
    /\ cmdOut = NoCmdOut
    /\ execRet = NoExec
    /\ pmPlugins = <<>>
    /\ pmCall = Idle
    /\ pmRet = NoPmRet
    /\ pmStats = [n \in PluginNames |-> NoStats]
    /\ pmCalls = 0
    /\ cmd = NoCmd
    /\ dirRet = NoDirRet
    /\ ld = NoLd
    /\ hostsRet = NoHostsRet
    /\ snapRet = NoSnapRet
    /\ rl = NoRl
    /\ rb = NoRb
    /\ help = NoHelp
    /\ s3 = NoS3
    /\ io = NoIo

InitWith(ids) == InitWithFile(ids, {<<>>})

Init == InitWith(ValidatedConfigIds)

\* Context
Next ==
    \/ getExecutor
    \/ initializeProviders
    \/ \E type \in ProviderTypes \cup {"cache"} : getProvider(type)

Spec == Init /\ [][Next]_vars

\* ProviderRegistry, with the Context of configuration A supplying the
\* built-in registrations and an executor
InitReg == InitWith({"A"})

NextReg ==
    \/ getExecutor
    \/ initializeProviders
    \/ \E e \in CustomProviders : register(e)
    \/ \E type \in ResolveTypes, id \in ResolveConfigIds,
          exe \in ExecutorIds \cup {0} : resolve(type, id, exe)
    \/ clearInstances
    \/ clear

SpecReg == InitReg /\ [][NextReg]_vars

\* Context and the database commands
NextDb ==
    \/ \E type \in ProviderTypes : getProvider(type)
    \/ \E c \in DbCommandNames, env \in DbEnvs :
          \E inp \in DbInputsFor(c) : DbCommand(c, env, inp)

SpecDb == Init /\ [][NextDb]_vars

\* Executor capability calls
NextExec ==
    \E class \in ExecutorClasses, method \in CapabilityMethods, env \in Envs :
        Call(class, method, env)

SpecExec == InitReg /\ [][NextExec]_vars

\* PluginManager
NextPm ==
    \/ \E name \in PluginNames : loadPlugin(name)
    \/ loadPluginImported
    \/ \E names \in NameLists : loadPlugins(names)
    \/ loadPluginsNext
    \/ loadPluginsImported
    \/ loadPluginsReturn
    \/ \E name \in PluginNames : getCommands(name)
    \/ \E name \in PluginNames : unloadPlugin(name)
    \/ unloadAll

SpecPm == InitReg /\ [][NextPm]_vars

\* one run of the CLI: the enabled plugins are loaded, then the selected
\* command's wrapper runs
NextCmd ==
    \/ \E names \in NameLists : loadPlugins(names)
    \/ loadPluginsNext
    \/ loadPluginsImported
    \/ loadPluginsReturn
    \/ invoke
    \/ \E o \in HookOutcomes : runHook(o)
    \/ \E o \in {"return", "throw"} : runAction(o)
    \/ finish

SpecCmd == InitReg /\ [][NextCmd]_vars

\* loadCommandsFromDirectory on one directory of command files
NextDir ==
    \E dir \in Dirs : loadCommandsFromDirectory(dir)

SpecDir == InitReg /\ [][NextDir]_vars

\* loadCommands, then registerCommands, then the user selects a command
NextLoad ==
    \/ \E cfg \in LoaderConfigs : loadCommands(cfg)
    \/ loadCoreCommands
    \/ loadPluginCommands
    \/ loadCustomCommands
    \/ registerCommands
    \/ \E i \in 1 .. Len(ld.program) : select(i)

SpecLoad == InitReg /\ [][NextLoad]_vars

\* EtcHostsProvider.addEntries on one hosts file
InitHosts == InitWithFile({"A"}, HostsFiles)

NextHosts ==
    \E hosts \in ListsUpTo(Hostnames, Cardinality(Hostnames)), ip \in IPs,
       env \in [writable : BOOLEAN, exit : {0, 1}] :
        addEntries(hosts, ip, env)

SpecHosts == InitHosts /\ [][NextHosts]_vars

\* MySQLProvider.rollback on one snapshot directory, with the database
\* service mapped to a container
NextSnap ==
    \E dir \in SnapDirs, class \in ExecutorClasses, env \in {e \in DbEnvs : e.mapped},
       dbName \in BOOLEAN :
        rollback(dir, class, env, dbName)

SpecSnap == InitReg /\ [][NextSnap]_vars

\* the db:rollback command, with db:snapshot run beside it
NextRollback ==
    \/ \E dir \in SnapDirs : rollbackPrompt(dir)
    \/ snapshot("new.sql")
    \/ \E confirmed \in BOOLEAN, class \in ExecutorClasses,
          env \in {e \in DbEnvs : e.mapped}, dbName \in BOOLEAN :
            rollbackAnswer(confirmed, class, env, dbName)

SpecRollback == InitReg /\ [][NextRollback]_vars

\* docker rebuild
NextRebuild ==
    \/ \E inp \in RebuildInputs, check \in ComposeChecks : rebuild(inp, check)
    \/ \E code \in {0, 1}, check \in ComposeChecks : composeExits(code, check)

SpecRebuild == InitReg /\ [][NextRebuild]_vars

\* the categorized help
NextHelp ==
    \E commands \in ListsUpTo(Categories, MaxCommands) : buildCategorizedHelp(commands)

SpecHelp == InitReg /\ [][NextHelp]_vars

\* S3Provider.detectCLITool on one provider
NextS3 ==
    \E cliTool \in CliTools, class \in ExecutorClasses, env \in DbEnvs,
       mcExit \in ExitCodes, awsExit \in ExitCodes :
        detectCLITool(cliTool, class, env, mcExit, awsExit)

SpecS3 == InitReg /\ [][NextS3]_vars

\* operations of storage, hosts and database providers
NextIo ==
    \/ \E inp \in StorageInputs : upload(inp)
    \/ \E inp \in StorageInputs : download(inp)
    \/ \E inp \in StorageInputs : delete(inp)
    \/ \E env \in [writable : BOOLEAN, win32 : BOOLEAN, exit : {0, 1}] : hostsWrite(env)
    \/ \E class \in ExecutorClasses, env \in DbEnvs : connect(class, env)

SpecIo == InitReg /\ [][NextIo]_vars

\* docker reload
NextReload ==
    \/ \E cfg \in ReloadConfigs : reload(cfg)
    \/ \E i \in 1 .. MaxReloadable, ok \in BOOLEAN : restartSettles(i, ok)
    \/ reloadReport

SpecReload == InitReg /\ [][NextReload]_vars

(***************************************************************************)
(* Properties of the Context and the ProviderRegistry.                     *)
(***************************************************************************)
ContextExecutors ==
    {i \in Ids : heap[i].by = "context" /\ heap[i].class \in ExecutorClasses}

ContextProviders(type) ==
    {i \in Ids : heap[i].by = "context" /\ heap[i].type = type}

\* C1: over any sequence of getExecutor() and getProvider(type) calls the
\* Context has constructed at most one Executor and at most one Provider per
\* type, and every call that returns an object returns that one object.
C1_OneInstancePerContext ==
    /\ Cardinality(ContextExecutors) <= 1
    /\ \A type \in ProviderTypes : Cardinality(ContextProviders(type)) <= 1
    /\ (ret.op = "getExecutor" /\ ret.outcome = "return")
          => ContextExecutors = {ret.value}
    /\ (ret.op = "getProvider" /\ ret.outcome = "return" /\ ret.value # 0)
          => ContextProviders(ret.arg) = {ret.value}

\* a getExecutor() call made after the Executor and a Provider were built
\* returns the Executor of the first call
C1_Witness ==
    /\ ret.op = "getExecutor"
    /\ ret.outcome = "return"
    /\ ret.value = 1
    /\ \E type \in ProviderTypes : ContextProviders(type) # {}

\* C2: a resolve call that directly follows a resolve call for the same
\* (type, driverName) pair returns the object the earlier call returned.
C2_SameIdentity ==
    [][(/\ ret.op = "resolve" /\ ret.outcome = "return"
        /\ ret'.op = "resolve" /\ ret'.outcome = "return"
        /\ ret'.arg = ret.arg
        /\ DriverOf(ret'.cfg, ret'.arg) = DriverOf(ret.cfg, ret.arg))
       => ret'.value = ret.value]_vars

\* resolve returned an instance that an earlier call built from another
\* configuration object or executor
C2_Witness ==
    /\ ret.op = "resolve"
    /\ ret.outcome = "return"
    /\ ret.value # 0
    /\ heap[ret.value].cfg # ret.cfg \/ heap[ret.value].executor # ret.exe

RegisteredNames(type) ==
    {e.name : e \in {x \in Range(regProviders) : x.type = type}}

\* C4: resolve for a driver name other than "none" that has no registered
\* class raises (no null, no instance), and the error lists exactly the
\* driver names registered for that type.
C4_UnregisteredDriverRaises ==
    (/\ ret.op = "resolve"
     /\ DriverOf(ret.cfg, ret.arg) \notin {"unset", "none"}
     /\ DriverOf(ret.cfg, ret.arg) \notin RegisteredNames(ret.arg))
    => /\ ret.outcome = "throw"
       /\ ret.err = "ProviderNotFound"
       /\ ret.value = 0
       /\ Range(ret.list) = RegisteredNames(ret.arg)

\* resolve raised while other drivers of the type were registered
C4_Witness ==
    /\ ret.op = "resolve"
    /\ ret.outcome = "throw"
    /\ ret.list # <<>>
    /\ DriverOf(ret.cfg, ret.arg) \notin RegisteredNames(ret.arg)

(***************************************************************************)
(* Properties of the executors and of the database commands.               *)
(***************************************************************************)
\* C3: a capability call whose wrapped subprocess fails does not raise; where
\* it returns a {stdout, stderr, exitCode} record the exit code is non-zero.
C3_FailureIsAnExitCode ==
    execRet.res.failed
    => /\ execRet.res.outcome = "return"
       /\ execRet.res.shape = "record" => execRet.res.exitCode # 0

\* C5: with database.driver = "none" the Context answers null for the
\* database provider, and every database command prints "Database is not
\* configured", returns, and has started no subprocess.
C5_NotConfigured ==
    Config(ctxConfig).database = "none"
    => /\ (ret.op = "getProvider" /\ ret.arg = "database")
             => ret.outcome = "return" /\ ret.value = 0
       /\ cmdOut.cmd \in DbCommandNames
             => /\ cmdOut.messages = <<"Database is not configured">>
                /\ cmdOut.spawned = 0
                /\ cmdOut.outcome = "return"
       /\ ctxProviders["database"] \in {Undefined, 0}

\* db:backup ran against a configuration with database.driver = "none"
C5_Witness ==
    /\ Config(ctxConfig).database = "none"
    /\ cmdOut.cmd = "db:backup"
    /\ ret.op = "getProvider"
    /\ ret.value = 0
    /\ ctxProviders["database"] = 0

(***************************************************************************)
(* Properties of the PluginManager and of the command wrapper.             *)
(***************************************************************************)
\* C6: when a beforeCommand hook has thrown, the process is not ended by
\* the hook, and the wrapper does not end before the action was invoked.
C6_HookIsolation ==
    cmd.beforeThrew
    => /\ ~cmd.hookExit
       /\ cmd.pc \in {"done", "exit"} => cmd.actionInvoked

\* the module under pluginsDir can be loaded: it exists, its import succeeds
\* and its default export has a name and a version
Loadable(name) ==
    /\ PluginModule(name).exists
    /\ PluginModule(name).importOk
    /\ PluginModule(name).hasName
    /\ PluginModule(name).hasVersion

\* C7: when loadPlugins(names) returns, every name was attempted: each
\* loadable name is loaded and among the results, each other name was warned
\* about, whatever its position in the list.
C7_EachNameIndependently ==
    pmRet.op = "loadPlugins"
    => /\ \A i \in 1..Len(pmRet.names) :
            LET name == pmRet.names[i]
            IN  IF Loadable(name)
                THEN name \in Range(pmRet.results) /\ name \in Range(pmPlugins)
                ELSE name \in Range(pmRet.warned) /\ name \notin Range(pmPlugins)
       /\ Len(pmRet.results) + Len(pmRet.warned) = Len(pmRet.names)

\* loadPlugins returned after a name that failed was followed by a name that
\* loaded
C7_Witness ==
    /\ pmRet.op = "loadPlugins"
    /\ \E i, j \in 1..Len(pmRet.names) :
          /\ i < j
          /\ pmRet.names[i] \in Range(pmRet.warned)
          /\ pmRet.names[j] \in Range(pmRet.results)
          /\ pmStats[pmRet.names[j]].imports > 0

\* this step is the entry of a loadPlugin(name) call made by a caller
LoadPluginCalled(name) ==
    /\ pmCall.op = "idle"
    /\ pmCalls' = pmCalls + 1
    /\ \/ pmCall'.op = "loadPlugin" /\ pmCall'.loading = name
       \/ pmCall'.op = "idle" /\ pmRet'.op = "loadPlugin" /\ pmRet'.name = name

C9_Idempotent ==
    [][\A name \in PluginNames :
          (LoadPluginCalled(name) /\ name \in Range(pmPlugins))
          => /\ pmRet'.outcome = "return"
             /\ pmRet'.value = name
             /\ pmCall'.op = "idle"
             /\ pmStats' = pmStats
             /\ pmPlugins' = pmPlugins]_vars

\* loadPlugin(name) returned from the cache for a module imported once
C9_Witness ==
    /\ pmRet.op = "loadPlugin"
    /\ pmRet.cached
    /\ pmRet.outcome = "return"
    /\ pmStats[pmRet.name].imports = 1
    /\ pmStats[pmRet.name].validations = 1

\* C10: the command provider of a plugin has been invoked only if
\* getCommands(name) was requested, never more often than requested, and a
\* getCommands(name) that returns for a plugin with a provider has invoked it.
C10_LazyCommands ==
    \A name \in PluginNames :
       /\ pmStats[name].providerCalls <= pmStats[name].requests
       /\ (/\ pmRet.op = "getCommands" /\ pmRet.name = name
           /\ pmRet.outcome = "return"
           /\ PluginModule(name).commands = "function")
          => pmStats[name].providerCalls >= 1

\* a loaded plugin with a command provider, after its first getCommands
C10_Witness ==
    /\ pmRet.op = "getCommands"
    /\ pmRet.outcome = "return"
    /\ PluginModule(pmRet.name).commands = "function"
    /\ pmStats[pmRet.name].imports = 1
    /\ pmStats[pmRet.name].requests = 1
    /\ pmStats[pmRet.name].providerCalls = 1

(***************************************************************************)
(* Properties of the command loader.                                       *)
(***************************************************************************)
\* the definitions the .js files of a directory offer, one level of
\* subdirectories included
OfferedIn(dir) ==
    UNION {
        IF dir.entries[i].type = "js"
        THEN Range(Offered(dir.entries[i].export, <<i>>))
        ELSE IF dir.entries[i].type = "dir"
        THEN UNION { IF dir.entries[i].entries[j].type = "js"
                     THEN Range(Offered(dir.entries[i].entries[j].export, <<i, j>>))
                     ELSE {} : j \in 1 .. Len(dir.entries[i].entries) }
        ELSE {} : i \in 1 .. Len(dir.entries) }

\* the top-level files that export one object with neither action nor
\* subcommands
HollowFiles(dir) ==
    {i \in 1 .. Len(dir.entries) :
        /\ dir.entries[i].type = "js"
        /\ dir.entries[i].export = Export("single", <<"hollow">>)}

\* C11: every definition loadCommandsFromDirectory keeps has a name and
\* either an action or a subcommand list that is not empty.
C11_KeptHasActionOrSubcommand ==
    dirRet.called =>
        \A i \in 1 .. Len(dirRet.res.commands) :
            LET d == dirRet.res.commands[i]
            IN  DefName(d) /\ (DefAction(d) \/ DefSubcommands(d) # <<>>)

\* C13: when a file of the directory exports an object that has neither an
\* action nor subcommands, nothing of that file is kept, a warning names it,
\* and every valid definition the directory's other files offer is returned.
C13_LoaderIsolation ==
    dirRet.called =>
        \A i \in HollowFiles(dirRet.dir) :
            /\ \A d \in Range(dirRet.res.commands) : d.src[1] # i
            /\ <<i, 1>> \in Range(dirRet.res.warnings)
            /\ \A d \in OfferedIn(dirRet.dir) :
                  isValidCommand(d) => d \in Range(dirRet.res.commands)

\* C13 witness: a directory whose first file is such an object and whose
\* second file exports a command; the load returned exactly that command.
C13_Witness ==
    /\ dirRet.called
    /\ Len(dirRet.dir.entries) = 2
    /\ 1 \in HollowFiles(dirRet.dir)
    /\ dirRet.dir.entries[2] = Entry("js", Export("single", <<"leaf">>), <<>>)
    /\ dirRet.res.commands = <<CommandDef(<<2, 1>>, "leaf")>>
    /\ dirRet.res.warnings = <<<<1, 1>>>>

\* loadCommands has returned
LoadReturned == ld.pc \in {"loaded", "registered"}

\* the definitions with a name, two subcommands and no action that the
\* enabled sources hold: built-in groups, loaded plugins, custom paths
GroupsOffered ==
    {d \in UNION {Range(loadCommandsFromDirectoryResult(BuiltinDir(CoreGroups[g]),
                                                        <<g>>).commands) :
                    g \in {h \in 1 .. Len(CoreGroups) : GroupEnabled(ld.cfg, CoreGroups[h])}} :
        d.kind = "group"}
    \cup
    {d \in UNION {Range(Offered(Export("array", PluginCommands(ld.cfg.enabled[i])),
                                <<PluginsSrc, i>>)) :
                    i \in {j \in 1 .. Len(ld.cfg.enabled) :
                              ld.cfg.enabled[j] \in Range(pmPlugins)}} :
        d.kind = "group"}
    \cup
    {d \in UNION {IF CustomTarget(ld.cfg.custom[i]).type = "js"
                  THEN Range(Offered(CustomTarget(ld.cfg.custom[i]).export,
                                     <<CustomSrc, i>>))
                  ELSE {} : i \in 1 .. Len(ld.cfg.custom)} :
        d.kind = "group"}

\* C12: a definition with a name and at least one subcommand and no action is
\* kept by loadCommands whichever stage offers it: a built-in group, an
\* enabled plugin that loaded, or a custom path.
C12_GroupKeptFromEveryStage ==
    LoadReturned => \A d \in GroupsOffered : d \in Range(ld.commands)

\* the source a stage's definitions come from
StageSources(pc) ==
    CASE pc = "core"    -> 1 .. Len(CoreGroups)
      [] pc = "plugins" -> {PluginsSrc}
      [] pc = "custom"  -> {CustomSrc}
      [] OTHER          -> {}

\* C14: every step of loadCommands leaves the definitions aggregated so far
\* in place and appends the definitions of its own stage behind them; the
\* stages run in the order built-in groups (core, docker, database, system,
\* storage), plugins, custom paths.
C14_StagesAppend ==
    [][ /\ Len(ld.commands') >= Len(ld.commands)
        /\ SubSeq(ld.commands', 1, Len(ld.commands)) = ld.commands
        /\ \A i \in Len(ld.commands) + 1 .. Len(ld.commands') :
              ld.commands'[i].src[1] \in StageSources(ld.pc)
        /\ \A i, j \in 1 .. Len(ld.commands') :
              i < j => ld.commands'[i].src[1] <= ld.commands'[j].src[1]
        /\ ld.pc = "core"    => ld.pc' = "plugins"
        /\ ld.pc = "plugins" => ld.pc' = "custom"
        /\ ld.pc = "custom"  => ld.pc' = "loaded" ]_vars

\* C14 witness: loadCommands returned definitions of a built-in group, then
\* of a plugin, then of a custom path.
C14_Witness ==
    /\ LoadReturned
    /\ \E i, j, k \in 1 .. Len(ld.commands) :
          /\ i < j /\ j < k
          /\ ld.commands[i].src[1] = 1
          /\ ld.commands[j].src[1] = PluginsSrc
          /\ ld.commands[k].src[1] = CustomSrc

C16_ParentShowsHelp ==
    /\ ld.pc = "registered" =>
          \A i \in 1 .. Len(ld.program) :
              LET d == ld.commands[i]
                  node == ld.program[i]
              IN  DefSubcommands(d) # <<>> =>
                    /\ node.def = d
                    /\ ~node.action
                    /\ Len(node.children) = Len(DefSubcommands(d))
                    /\ \A k \in 1 .. Len(node.children) :
                          /\ node.children[k].def = DefSubcommands(d)[k]
                          /\ node.children[k].action
    /\ (ld.selected # 0 /\ DefSubcommands(ld.commands[ld.selected]) # <<>>) =>
          ld.outcome = "help"

\* C16 witness: a parent with two subcommands was registered and then
\* selected by its name alone.
C16_Witness ==
    /\ ld.pc = "registered"
    /\ ld.selected # 0
    /\ ld.commands[ld.selected].kind = "group"
    /\ Len(ld.program[ld.selected].children) = 2
    /\ ld.outcome = "help"

(***************************************************************************)
(* Properties of the action wrapper.                                       *)
(***************************************************************************)
PhaseRank(phase) ==
    CASE phase = "before" -> 1 [] phase = "action" -> 2 [] phase = "after" -> 3

\* C17: in one run of the wrapper the beforeCommand hooks of all loaded
\* plugins have finished before the action is called, the action is called
\* with (options, context, ...positional arguments), and an afterCommand hook
\* runs only after the action has returned and is handed its result; when
\* the wrapper returns, every loaded plugin's afterCommand hook has run.
C17_WrapperOrder ==
    /\ \A i, j \in 1 .. Len(cmd.events) :
          i < j => PhaseRank(cmd.events[i].phase) <= PhaseRank(cmd.events[j].phase)
    /\ \A a \in 1 .. Len(cmd.events) :
          cmd.events[a].phase = "action" =>
              \A n \in Range(pmPlugins) :
                  PluginModule(n).before =>
                      \E b \in 1 .. a - 1 :
                          cmd.events[b].phase = "before" /\ cmd.events[b].name = n
    /\ \A i \in 1 .. Len(cmd.events) :
          cmd.events[i].phase = "after" =>
              \E a \in 1 .. i - 1 : cmd.events[a] = Event("action", "", "returned")
    /\ cmd.actionInvoked =>
          \E positional \in PositionalArgs :
              /\ cmd.args = CommanderArgs(positional)
              /\ cmd.actionArgs = <<"options", "context">> \o positional
    /\ Len(cmd.afterGot) =
          Cardinality({i \in 1 .. Len(cmd.events) : cmd.events[i].phase = "after"})
    /\ \A i \in 1 .. Len(cmd.afterGot) : cmd.afterGot[i] = "result"
    /\ cmd.pc = "done" =>
          \A n \in Range(pmPlugins) :
              PluginModule(n).after =>
                  \E i \in 1 .. Len(cmd.events) :
                      cmd.events[i].phase = "after" /\ cmd.events[i].name = n

\* C17 witness: with two plugins loaded, a command given one positional
\* argument ran both beforeCommand hooks, then its action, then the
\* afterCommand hook, and the wrapper returned.
C17_Witness ==
    /\ cmd.pc = "done"
    /\ pmPlugins = <<"static", "laravel">>
    /\ cmd.events = << Event("before", "static", "ran"), Event("before", "laravel", "ran"),
                       Event("action", "", "returned"), Event("after", "laravel", "ran") >>
    /\ cmd.actionArgs = <<"options", "context", "arg1">>
    /\ cmd.afterGot = <<"result">>

(***************************************************************************)
(* Properties of the hosts provider.                                       *)
(***************************************************************************)
\* the number of entries between the two markers
ManagedCount(content) ==
    Len(existingManaged(getManagedSection(content).managed))

\* C18: an addEntries call that repeats the hostnames and the IP of the call
\* before it reports every hostname as skipped and none as added, and the
\* number of managed entries stays as it was.
C18_SecondCallSkips ==
    [][ ( /\ hostsRet.n >= 1
          /\ hostsRet'.n = hostsRet.n + 1
          /\ hostsRet'.hosts = hostsRet.hosts
          /\ hostsRet'.ip = hostsRet.ip )
        => ( /\ hostsRet'.added = <<>>
             /\ hostsRet'.skipped = hostsRet'.hosts
             /\ ManagedCount(hostsFile') = ManagedCount(hostsFile) ) ]_vars

(***************************************************************************)
(* Properties of rollback.                                                 *)
(***************************************************************************)
\* the snapshot files of a directory
SnapshotFiles(dir) ==
    IF dir.exists THEN {e \in Range(dir.entries) : e.isFile} ELSE {}

\* C19: rollback() on a directory without snapshot files raises "No snapshots
\* available" and neither restores nor runs anything; with snapshot files it
\* hands restore the file whose modification time is the latest, whatever
\* the files are called and in whatever order the directory lists them.
C19_RollbackLatest ==
    snapRet.called =>
        /\ SnapshotFiles(snapRet.dir) = {} =>
              /\ snapRet.outcome = "throw"
              /\ snapRet.err = "No snapshots available"
              /\ snapRet.source = ""
              /\ snapRet.spawned = 0
        /\ SnapshotFiles(snapRet.dir) # {} =>
              \E e \in SnapshotFiles(snapRet.dir) :
                  /\ e.name = snapRet.source
                  /\ \A f \in SnapshotFiles(snapRet.dir) : f.created <= e.created

\* C19 witness: the directory lists z.sql (older) before a.sql (newer), and
\* rollback restored from a.sql.
C19_Witness ==
    /\ snapRet.called
    /\ snapRet.dir.entries = << [name |-> "z.sql", created |-> 1, isFile |-> TRUE],
                                [name |-> "a.sql", created |-> 3, isFile |-> TRUE] >>
    /\ snapRet.source = "a.sql"
    /\ snapRet.outcome = "return"
    /\ snapRet.spawned > 0

(***************************************************************************)
(* Properties of reload.                                                   *)
(***************************************************************************)
\* containers {app: "proj_app", db: "proj_db"}, reloadable ["app"]
AppOnlyConfig ==
    [containers |-> [s \in Services |-> IF s \in {"app", "db"} THEN ContainerName(s)
                                         ELSE ""],
     reloadable |-> <<"app">>]

\* C20: with containers {app: "proj_app", db: "proj_db"} and reloadable
\* ["app"], reload issues `docker restart` for proj_app and for nothing else,
\* and reports success when that restart succeeded; under every
\* configuration, the container of a service that is not listed as
\* reloadable is never restarted.
C20_ReloadOnlyReloadable ==
    /\ (rl.pc # "idle" /\ rl.cfg = AppOnlyConfig) =>
          /\ rl.restarts = <<"proj_app">>
          /\ rl.pc = "done" =>
                (rl.report = "Application containers reloaded" <=> rl.results = <<TRUE>>)
    /\ \A s \in Services :
          s \notin Range(rl.cfg.reloadable) =>
              /\ ContainerName(s) \notin Range(rl.restarts)
              /\ s \notin Range(rl.restarts)

\* C20 witness: under that configuration the restart of proj_app succeeded
\* and reload reported success.
C20_Witness ==
    /\ rl.cfg = AppOnlyConfig
    /\ rl.pc = "done"
    /\ rl.restarts = <<"proj_app">>
    /\ rl.results = <<TRUE>>
    /\ rl.report = "Application containers reloaded"

\* the restarts that succeeded
Succeeded == {i \in 1 .. Len(rl.results) : rl.results[i]}

\* C21 (as stated): reload reports after all restarts have settled, and its
\* aggregate report gives the counts "N of M succeeded".
C21_ReportsNofM ==
    /\ rl.report # "" => rl.pending = {}
    /\ (rl.pc = "done" /\ rl.restarts # <<>>) =>
          rl.reportArgs = <<Cardinality(Succeeded), Len(rl.restarts)>>

\* C21 (amended): reload reports only after every restart has settled; each
\* failed restart has its own "Failed to restart" line, and the aggregate
\* report is the success message exactly when no restart failed and the
\* warning "Some containers failed to restart" otherwise.
C21_AwaitsAllReportsFailure ==
    /\ rl.report # "" => rl.pending = {}
    /\ (rl.pc = "done" /\ rl.restarts # <<>>) =>
          /\ \A i \in 1 .. Len(rl.restarts) :
                rl.printed[i] = IF rl.results[i] THEN "restarted" ELSE "Failed to restart"
          /\ rl.report = IF Cardinality(Succeeded) = Len(rl.restarts)
                         THEN "Application containers reloaded"
                         ELSE "Some containers failed to restart"

\* C21 witness: of two restarts the first failed and the second succeeded,
\* and reload reported the warning.
C21_Witness ==
    /\ rl.pc = "done"
    /\ rl.results = <<FALSE, TRUE>>
    /\ rl.printed = <<"Failed to restart", "restarted">>
    /\ rl.report = "Some containers failed to restart"

\* C30: every name reload passes to `docker restart` is a value of the
\* configured containers mapping.
C30_OnlyMappedContainers ==
    \A c \in Range(rl.restarts) : \E s \in Services : rl.cfg.containers[s] = c

\* C29: an addEntries call leaves every (ip, hostname) entry of the hosts
\* file in place, inside or outside the managed section, unless its hostname
\* is in the returned added list.
C29_OnlyAddedChange ==
    [][ hostsRet'.n = hostsRet.n + 1 =>
          \A e \in parseHostsFile(hostsFile) :
              e.hostname \notin Range(hostsRet'.added) =>
                  e \in parseHostsFile(hostsFile') ]_vars

\* C25: the Provider a resolve call returns was constructed with the
\* executor and the configuration passed in that call.
C25_BoundToThisCall ==
    (ret.op = "resolve" /\ ret.outcome = "return" /\ ret.value # 0) =>
        /\ heap[ret.value].executor = ret.exe
        /\ heap[ret.value].cfg = ret.cfg

\* C27: db:restore and db:rollback print their success message only when the
\* restore subprocess that the provider started has exited with code 0.
C27_SuccessNeedsExitZero ==
    ( /\ cmdOut.cmd \in {"db:restore", "db:rollback"}
      /\ \/ "Database restored" \in Range(cmdOut.messages)
         \/ "Database rolled back" \in Range(cmdOut.messages) ) =>
        /\ execRet.method = "runInService"
        /\ execRet.res.exitCode = 0

\* C26: when db:rollback restores, it restores the snapshot that its accepted
\* confirmation prompt named, also when another snapshot was created after
\* the listing.
C26_RestoresShown ==
    (snapRet.pc = "done" /\ snapRet.answer /\ snapRet.source # "") =>
        snapRet.source = snapRet.shown

\* the steps whose subprocess has been spawned, in spawn order
Spawned(log) ==
    LET sp == SelectSeq(log, LAMBDA e : e.ev = "spawn")
    IN  [i \in 1 .. Len(sp) |-> sp[i].step]

\* C22: rebuild runs compose down, then build, then up, in that order, and
\* spawns a step only after the subprocess of every earlier step has exited.
C22_StopBuildStartInOrder ==
    /\ Spawned(rb.log) \in {<<>>, <<"down">>, <<"down", "build">>,
                             <<"down", "build", "up">>}
    /\ \A i \in 1 .. Len(rb.log) :
          rb.log[i].ev = "spawn" =>
              \A j \in 1 .. i - 1 :
                  rb.log[j].ev = "spawn" =>
                      \E k \in j + 1 .. i - 1 :
                          rb.log[k] = [rb.log[j] EXCEPT !.ev = "exit"]

\* a rebuild that has spawned all three steps
C22_Witness ==
    /\ rb.pc = "done"
    /\ rb.outcome = "return"
    /\ Spawned(rb.log) = <<"down", "build", "up">>

\* C23: in the categorized help the categories that match the priority list
\* come in the order of that list, every category that matches none of its
\* words comes after all matching ones, and those are in alphabetical order.
C23_PriorityThenAlphabetical ==
    LET sorted == help.sortedCategories
    IN  \A i, j \in 1 .. Len(sorted) :
            i < j =>
                /\ (findIndex(sorted[i]) # 0 /\ findIndex(sorted[j]) # 0) =>
                        findIndex(sorted[i]) <= findIndex(sorted[j])
                /\ findIndex(sorted[i]) = 0 => findIndex(sorted[j]) = 0
                /\ (findIndex(sorted[i]) = 0 /\ findIndex(sorted[j]) = 0) =>
                        localeCompare(sorted[i], sorted[j]) < 0

\* a help text with two unmatched categories given in reverse alphabetical
\* order before a matching one
C23_Witness ==
    /\ help.called
    /\ Len(help.commands) = 3
    /\ findIndex(help.commands[1]) = 0
    /\ findIndex(help.commands[2]) = 0
    /\ localeCompare(help.commands[1], help.commands[2]) > 0
    /\ findIndex(help.commands[3]) # 0
    /\ Len(help.sortedCategories) = 3

\* C28: with cliTool "auto", detectCLITool returns "mc" only if the mc probe
\* exited with code 0, returns "aws" when the mc probe failed and the aws
\* probe exited with code 0, and throws when both probes failed.
C28_DetectsWorkingTool ==
    (s3.called /\ s3.cliTool = "auto") =>
        LET mcOk  == s3.mc.outcome = "return" /\ s3.mc.exitCode = 0
            awsOk == s3.aws.outcome = "return" /\ s3.aws.exitCode = 0
        IN  /\ (s3.outcome = "return" /\ s3.value = "mc") => mcOk
            /\ (s3.outcome = "return" /\ s3.value = "aws") => (~mcOk /\ awsOk)
            /\ s3.outcome = "throw" => (~mcOk /\ ~awsOk)

\* C24: every change a provider operation makes to storage, to the hosts file
\* or to the database is made through the provider's executor, none by a
\* direct call of the fs module or of a subprocess.
C24_AllThroughExecutor ==
    \A e \in Range(io.effects) :
        e.on \in {"storage", "hosts", "database"} => e.via = "executor"

====
